---- MODULE Spec2Model ----
(***************************************************************************)
(* Model of the boomerang template compiler (package apptemplate), of its  *)
(* driver buildapp and of the package runtime of the compiled programs.    *)
(*                                                                         *)
(* Text is a sequence of one-character strings (one element per rune).     *)
(* A hard path is a sequence of path components, each component a          *)
(* sequence of characters; every hard path is absolute.                    *)
(***************************************************************************)
EXTENDS Integers, Sequences, FiniteSets, TLC

VARIABLES
  fs,                \* the file system: hard path -> file
  siteRoot,          \* Process argument: hard path of the site root
  workingDirectory,  \* what os.Getwd returns
  templatePath,      \* Process argument: text of the top-level path
  goParser,          \* what go/parser reports for the user's code
  pc,                \* position inside Process
  sections,          \* package variable sections
  stack,             \* package variable stack
  frames,            \* activations of doParse, outermost first
  opened,            \* hard paths handed to a successful os.Open, in order
  origin,            \* for every section, where its text was read
  ret,               \* the error Process returns
  sink,              \* what Process wrote to its writer, in order
  raw,               \* the sections as parse returned them
  output,            \* the bytes.Buffer output, as the writes made to it,
                     \* each with its section and the piece it prints
  isImported,        \* Process locals of the emission-namespace resolution
  importedAs,
  seenName,
  importAs,
  printPrefix,
  batch,             \* the driver's arguments: the templates to compile, in
                     \* order, each with the verdict of go/parser on its code
  parked,            \* a second call of Process, while the other call steps
  statusHeader,      \* package runtime: variable statusHeader
  locationHeader,    \* package runtime: variable locationHeader
  headers,           \* package runtime: variable headers
  contentBuffer,     \* package runtime: the text in contentBuffer
  stdout,            \* what a compiled program wrote to os.Stdout, one
                     \* entry per call that wrote
  calls              \* the calls a compiled program made to the package
                     \* runtime, in order

(* The package runtime is linked into the compiled programs, not into the  *)
(* compiler: no step of the compiler or of the driver touches its state.   *)
runtimeVars == <<statusHeader, locationHeader, headers, contentBuffer,
                 stdout, calls>>

envVars == <<fs, siteRoot, workingDirectory, templatePath, goParser, batch,
             parked, runtimeVars>>
nameVars == <<isImported, importedAs, seenName, importAs, printPrefix>>
procVars == <<raw, output, isImported, importedAs, seenName, importAs,
              printPrefix>>

----------------------------------------------------------------------------
(* Bounds of the explored inputs.                                          *)

MaxScanChunks == 3
MaxItems == 2
MaxNormChunks == 4
MaxLiteralLen == 4
MaxImports == 3
MaxBatch == 3
MaxCalls == 4

----------------------------------------------------------------------------
(* Text helpers.                                                           *)

Static == 0
Code == 1

RECURSIVE Flatten(_)
Flatten(ss) == IF ss = <<>> THEN <<>> ELSE Head(ss) \o Flatten(Tail(ss))

EndsWith(s, t) ==
  /\ Len(s) >= Len(t)
  /\ SubSeq(s, Len(s) - Len(t) + 1, Len(s)) = t

StartsWith(s, t) ==
  /\ Len(s) >= Len(t)
  /\ SubSeq(s, 1, Len(t)) = t

Contains(s, t) ==
  \E i \in 0..(Len(s) - Len(t)) : SubSeq(s, i + 1, i + Len(t)) = t

IsSpace(ch) == ch \in {" ", "\n", "\t"}

AllSpace(s) == \A i \in 1..Len(s) : IsSpace(s[i])

RECURSIVE TrimLeft(_)
TrimLeft(s) ==
  IF s # <<>> /\ IsSpace(Head(s)) THEN TrimLeft(Tail(s)) ELSE s

RECURSIVE TrimRight(_)
TrimRight(s) ==
  IF s # <<>> /\ IsSpace(s[Len(s)])
    THEN TrimRight(SubSeq(s, 1, Len(s) - 1))
    ELSE s

TrimSpace(s) == TrimRight(TrimLeft(s))

Digit(n) == CASE n = 0 -> "0" [] n = 1 -> "1" [] n = 2 -> "2" [] n = 3 -> "3"
              [] n = 4 -> "4" [] n = 5 -> "5" [] n = 6 -> "6" [] n = 7 -> "7"
              [] n = 8 -> "8" [] n = 9 -> "9"

RECURSIVE Itoa(_)
Itoa(n) == IF n < 10 THEN <<Digit(n)>> ELSE Itoa(n \div 10) \o <<Digit(n % 10)>>

(* fmt.Sprintf / fmt.Fprintf called with a format and no operands: text is *)
(* copied up to a percent sign; flags, width and precision are skipped; the *)
(* verb "%" prints a percent sign, any other verb prints the bad-verb       *)
(* notice for a missing operand, and a format that ends inside a directive  *)
(* prints the no-verb notice.                                              *)
FmtFlags == {"#", "0", "+", "-", " "}
FmtDigits == {"0", "1", "2", "3", "4", "5", "6", "7", "8", "9"}
MissingString == <<"(", "M", "I", "S", "S", "I", "N", "G", ")">>
NoVerbString == <<"%", "!", "(", "N", "O", "V", "E", "R", "B", ")">>

RECURSIVE SkipChars(_, _, _)
SkipChars(s, i, set) ==
  IF i <= Len(s) /\ s[i] \in set THEN SkipChars(s, i + 1, set) ELSE i

VerbIndex(s, i) ==
  LET afterFlags == SkipChars(s, i, FmtFlags)
      afterWidth == SkipChars(s, afterFlags, FmtDigits)
  IN  IF afterWidth <= Len(s) /\ s[afterWidth] = "."
        THEN SkipChars(s, afterWidth + 1, FmtDigits)
        ELSE afterWidth

RECURSIVE SprintfFrom(_, _)
SprintfFrom(s, i) ==
  IF i > Len(s) THEN <<>>
  ELSE IF s[i] # "%"
    THEN LET percents == {j \in i..Len(s) : s[j] = "%"}
             end == IF percents = {} THEN Len(s) + 1
                    ELSE CHOOSE j \in percents : \A k \in percents : j <= k
         IN  SubSeq(s, i, end - 1) \o SprintfFrom(s, end)
  ELSE LET v == VerbIndex(s, i + 1)
       IN  IF v > Len(s) THEN NoVerbString
           ELSE IF s[v] = "%" THEN <<"%">> \o SprintfFrom(s, v + 1)
           ELSE <<"%", "!", s[v]>> \o MissingString \o SprintfFrom(s, v + 1)

Sprintf(format) == SprintfFrom(format, 1)

RECURSIVE JoinText(_, _)
JoinText(lines, sep) ==
  IF lines = <<>> THEN <<>>
  ELSE IF Len(lines) = 1 THEN lines[1]
  ELSE lines[1] \o sep \o JoinText(Tail(lines), sep)

----------------------------------------------------------------------------
(* Linear pattern matching.                                                *)

NewPattern(s) == [Text |-> s, Length |-> Len(s), Pos |-> 0]

(* A matcher that leaves the cursor where it is when the rune does not     *)
(* continue the match.                                                     *)
PatternNextKeepsPos(pattern, ch) ==
  LET pos0 == IF pattern.Pos = pattern.Length THEN 0 ELSE pattern.Pos
  IN  IF ch = pattern.Text[pos0 + 1]
        THEN [pattern |-> [pattern EXCEPT !.Pos = pos0 + 1],
              hit |-> (pos0 + 1 = pattern.Length)]
        ELSE [pattern |-> [pattern EXCEPT !.Pos = pos0], hit |-> FALSE]

(* Pattern.Next: the pattern after the call and the returned boolean.      *)
PatternNext(pattern, ch) ==
  LET pos0 == IF pattern.Pos = pattern.Length THEN 0 ELSE pattern.Pos
  IN  IF ch = pattern.Text[pos0 + 1]
        THEN [pattern |-> [pattern EXCEPT !.Pos = pos0 + 1],
              hit |-> (pos0 + 1 = pattern.Length)]
        ELSE [pattern |-> [pattern EXCEPT !.Pos = 0], hit |-> FALSE]

OpenCodeText == <<"<", "?", "c", "o", "d", "e">>
OpenInsertText == <<"<", "?", "i", "n", "s", "e", "r", "t">>
CloseText == <<"?", ">">>

----------------------------------------------------------------------------
(* Paths (path, path/filepath) and the file system (os).                   *)

Slash == "/"

(* The components of a path text, empty components included.               *)
RECURSIVE SplitPath(_)
SplitPath(p) ==
  IF \A i \in 1..Len(p) : p[i] # Slash THEN <<p>>
  ELSE LET k == CHOOSE i \in 1..Len(p) :
                  p[i] = Slash /\ \A j \in 1..(i - 1) : p[j] # Slash
       IN  <<SubSeq(p, 1, k - 1)>> \o SplitPath(SubSeq(p, k + 1, Len(p)))

(* Lexical cleaning of the components of a rooted path.                    *)
RECURSIVE CleanFrom(_, _)
CleanFrom(done, rest) ==
  IF rest = <<>> THEN done
  ELSE LET c == Head(rest)
       IN  IF c = <<>> \/ c = <<".">> THEN CleanFrom(done, Tail(rest))
           ELSE IF c = <<".", ".">>
             THEN CleanFrom(IF done = <<>> THEN <<>>
                            ELSE SubSeq(done, 1, Len(done) - 1), Tail(rest))
           ELSE CleanFrom(Append(done, c), Tail(rest))

IsAbs(p) == p # <<>> /\ p[1] = Slash

(* filepath.Join of a hard directory and a path text.                      *)
Join(hardDir, p) == CleanFrom(hardDir, SplitPath(p))

(* filepath.Dir of a hard path.                                            *)
Dir(hardPath) ==
  IF hardPath = <<>> THEN <<>> ELSE SubSeq(hardPath, 1, Len(hardPath) - 1)

(* The hard path that the operating system resolves a path text to.        *)
Resolve(p) == IF IsAbs(p) THEN Join(<<>>, p) ELSE Join(workingDirectory, p)

(* os.Stat: "ok" with the file-identity token, or an error.                *)
Stat(hardPath) ==
  IF hardPath \in DOMAIN fs
    THEN [ok |-> TRUE, FileInfo |-> fs[hardPath].ino]
    ELSE [ok |-> FALSE, FileInfo |-> 0]

SameFile(a, b) == a = b

----------------------------------------------------------------------------
(* Entries of the inclusion stack.                                         *)

Entry(givenPath, hardPath, fileInfo, insertionLine) ==
  [GivenPath |-> givenPath, HardPath |-> hardPath,
   FileInfo |-> fileInfo, InsertionLine |-> insertionLine]

ArrowLine == <<"-", ">", " ", "l", "i", "n", "e", " ">>

EntryString(entry) ==
  IF entry.InsertionLine = 0 THEN entry.GivenPath
  ELSE ArrowLine \o Itoa(entry.InsertionLine) \o <<":", " ">>
         \o entry.GivenPath

CycleHeader == <<"d", "o", "P", "a", "r", "s", "e", ":", " ", "i", "n", "s",
                 "e", "r", "t", "i", "o", "n", " ", "c", "y", "c", "l", "e">>

(* A trace that starts at the repeated ancestor instead of the top.        *)
CycleLinesFromAncestor(stk) ==
  LET i == CHOOSE k \in 1..Len(stk) :
             k = Len(stk) \/ SameFile(stk[k].FileInfo, stk[Len(stk)].FileInfo)
  IN  <<CycleHeader>>
        \o [j \in 1..(Len(stk) - i + 1) |-> EntryString(stk[i + j - 1])]

(* The lines of the stack trace that doParse builds when it finds a cycle. *)
CycleLines(stk) == <<CycleHeader>> \o [j \in 1..Len(stk) |-> EntryString(stk[j])]

CycleMessage(stk) == Sprintf(JoinText(CycleLines(stk), <<"\n", " ", " ">>))

(* A check against every file opened so far, on the path or not.           *)
HasCycleAmongOpened(stk) ==
  \E k \in 1..Len(opened) :
    SameFile(Stat(opened[k]).FileInfo, stk[Len(stk)].FileInfo)

(* A check that leaves out the top-level template.                         *)
HasCycleAmongInserted(stk) ==
  \E i \in 2..(Len(stk) - 1) : SameFile(stk[i].FileInfo, stk[Len(stk)].FileInfo)

(* A check that compares hard paths instead of file identities.            *)
HasCycleByPath(stk) ==
  \E i \in 1..(Len(stk) - 1) : stk[i].HardPath = stk[Len(stk)].HardPath

(* doParse's check: is the current entry the same file as an ancestor?     *)
HasCycle(stk) ==
  \E i \in 1..(Len(stk) - 1) : SameFile(stk[i].FileInfo, stk[Len(stk)].FileInfo)

----------------------------------------------------------------------------
(* Sections.                                                               *)

Section(kind, text) == [Kind |-> kind, Text |-> text]

pushCode(secs, content) == Append(secs, Section(Code, content))

(* A static section put in front of the list instead of at its end.       *)
pushStaticFront(secs, chunk) == <<Section(Static, chunk)>> \o secs

(* A static section that is pushed only when it has text.                 *)
pushStaticWithText(secs, chunk) ==
  IF chunk = <<>> THEN secs ELSE Append(secs, Section(Static, chunk))

pushStatic(secs, chunk) == Append(secs, Section(Static, chunk))

----------------------------------------------------------------------------
(* Activations of doParse.  A frame is "entry" before the cycle check,     *)
(* "loop" at the head of the read loop and "call" while a child runs.      *)

NewFrame(templateDir) ==
  [at |-> "entry", templateDir |-> templateDir, file |-> <<>>, pos |-> 0,
   buffer |-> <<>>, codePattern |-> NewPattern(OpenCodeText),
   insertPattern |-> NewPattern(OpenInsertText), open |-> "nil",
   close |-> NewPattern(CloseText), lineIndex |-> 1]

Top == frames[Len(frames)]

Content(f) == fs[f.file].content

CanRead(f) == f.pos < Len(Content(f)) /\ fs[f.file].failAt # f.pos
AtEOF(f) == f.pos = Len(Content(f)) /\ fs[f.file].failAt # f.pos
ReadFails(f) == fs[f.file].failAt = f.pos

(* A scanner that never takes a tag to be open.                            *)
TagIsOpenNever(f) == FALSE

(* Line 194: has a tag been opened and not yet closed?                     *)
TagIsOpen(f) == f.open # "nil"

(* One test of an opening pattern inside the loop over openPatterns.       *)
(* st carries open, buffer, the static chunks pushed and a panic flag.     *)
TestOpen(st, name, result) ==
  IF ~result.hit \/ st.panic THEN st
  ELSE IF Len(st.buffer) < result.pattern.Length
    THEN [st EXCEPT !.panic = TRUE]
    ELSE [open |-> name,
          buffer |-> <<>>,
          pushed |-> Append(st.pushed,
              SubSeq(st.buffer, 1, Len(st.buffer) - result.pattern.Length)),
          panic |-> FALSE]

(* The body of the read loop for a rune ch, up to the point where a        *)
(* completed tag is handled.                                               *)
ReadRune(f) ==
  LET ch == Content(f)[f.pos + 1]
      buffer == Append(f.buffer, ch)
      f1 == [f EXCEPT !.pos = f.pos + 1, !.buffer = buffer,
                      !.lineIndex = IF ch = "\n" THEN f.lineIndex + 1
                                    ELSE f.lineIndex]
  IN  IF ~TagIsOpen(f)
        THEN LET c == PatternNext(f.codePattern, ch)
                 i == PatternNext(f.insertPattern, ch)
                 st0 == [open |-> "nil", buffer |-> buffer, pushed |-> <<>>,
                         panic |-> FALSE]
                 st1 == TestOpen(st0, "code", c)
                 st2 == TestOpen(st1, "insert", i)
             IN  [frame |-> [f1 EXCEPT !.codePattern = c.pattern,
                                       !.insertPattern = i.pattern,
                                       !.open = st2.open,
                                       !.buffer = st2.buffer],
                  event |-> IF st2.panic THEN "panic"
                            ELSE IF st2.pushed # <<>> THEN "open" ELSE "none",
                  pushed |-> st2.pushed,
                  content |-> <<>>]
        ELSE LET k == PatternNext(f.close, ch)
             IN  [frame |-> [f1 EXCEPT !.close = k.pattern],
                  event |-> IF ~k.hit THEN "none"
                            ELSE IF Len(buffer) < k.pattern.Length THEN "panic"
                            ELSE IF f.open = "code" THEN "code" ELSE "insert",
                  pushed |-> <<>>,
                  content |-> IF k.hit /\ Len(buffer) >= k.pattern.Length
                                THEN SubSeq(buffer, 1,
                                            Len(buffer) - k.pattern.Length)
                                ELSE <<>>]

(* Lines 240-241: the tag is closed and the buffer emptied.                *)
CloseTag(f) == [f EXCEPT !.open = "nil", !.buffer = <<>>]

ReplaceTop(f) == [frames EXCEPT ![Len(frames)] = f]

(* Where the text of a section pushed by the top frame comes from: the     *)
(* range of the file that the text was copied from, and as label the read  *)
(* offsets of the suspended callers followed by the end of that range.     *)
Origin(f, to, text) ==
  [label |-> [i \in 1..(Len(frames) - 1) |-> frames[i].pos] \o <<to>>,
   file |-> f.file,
   from |-> to - Len(text),
   to |-> to]

(* The nil error.                                                          *)
NoError == [kind |-> "nil"]

(* An error leaves doParse, parse and then Process (lines 281-288).        *)
Fail(e) ==
  /\ frames' = <<>>
  /\ ret' = e
  /\ sink' = Append(sink, [kind |-> "ParsingError",
                           templatePath |-> templatePath, err |-> e])
  /\ pc' = "done"

----------------------------------------------------------------------------
(* Process calls parse (lines 279-281, 94-121).                            *)

TextDir(p) ==
  LET comps == SplitPath(p)
  IN  SubSeq(comps, 1, Len(comps) - 1)

TextBase(p) ==
  LET comps == SplitPath(p)
  IN  comps[Len(comps)]

parseTemplateDir ==
  IF IsAbs(templatePath) THEN CleanFrom(<<>>, TextDir(templatePath))
  ELSE CleanFrom(workingDirectory, TextDir(templatePath))

parseStatFails ==
  /\ pc = "start"
  /\ ~Stat(Resolve(templatePath)).ok
  /\ Fail([kind |-> "stat", path |-> Resolve(templatePath)])
  /\ UNCHANGED <<sections, stack, opened, origin>>
  /\ UNCHANGED envVars
  /\ UNCHANGED procVars

(* The section list of the last call, kept.                                *)
LeftoverSections == sections

(* Line 119.                                                               *)
NewSections == <<>>

(* The entry pushed on the stack of the last call.                         *)
GrownStack(entry) == Append(stack, entry)

(* Line 120.                                                               *)
NewStack(entry) == <<entry>>

parse ==
  /\ pc = "start"
  /\ Stat(Resolve(templatePath)).ok
  /\ LET templateDir == parseTemplateDir
         hardPath == Join(templateDir, TextBase(templatePath))
         entry == Entry(templatePath, hardPath,
                        Stat(Resolve(templatePath)).FileInfo, 0)
     IN  /\ sections' = NewSections
         /\ stack' = NewStack(entry)
         /\ frames' = <<NewFrame(templateDir)>>
  /\ origin' = <<>>
  /\ pc' = "parse"
  /\ UNCHANGED <<opened, ret, sink>>
  /\ UNCHANGED envVars
  /\ UNCHANGED procVars

----------------------------------------------------------------------------
(* doParse, lines 125-166: cycle check and opening of the file.            *)

Current == stack[Len(stack)]

doParseCycle ==
  /\ pc = "parse" /\ Top.at = "entry"
  /\ stack # <<>>
  /\ HasCycle(stack)
  /\ Fail([kind |-> "cycle", message |-> CycleMessage(stack)])
  /\ UNCHANGED <<sections, stack, opened, origin>>
  /\ UNCHANGED envVars
  /\ UNCHANGED procVars

doParseOpenFails ==
  /\ pc = "parse" /\ Top.at = "entry"
  /\ stack # <<>>
  /\ ~HasCycle(stack)
  /\ ~fs[Current.HardPath].canOpen
  /\ Fail([kind |-> "open", path |-> Current.HardPath])
  /\ UNCHANGED <<sections, stack, opened, origin>>
  /\ UNCHANGED envVars
  /\ UNCHANGED procVars

doParseOpen ==
  /\ pc = "parse" /\ Top.at = "entry"
  /\ stack # <<>>
  /\ ~HasCycle(stack)
  /\ fs[Current.HardPath].canOpen
  /\ frames' = ReplaceTop([Top EXCEPT !.at = "loop",
                                      !.file = Current.HardPath])
  /\ opened' = Append(opened, Current.HardPath)
  /\ UNCHANGED <<sections, stack, origin, pc, ret, sink>>
  /\ UNCHANGED envVars
  /\ UNCHANGED procVars

(* The files that are open: doParse keeps the file of line 146 in a local  *)
(* and no path through it calls Close, so whatever was opened stays open.  *)
OpenHandles == opened

----------------------------------------------------------------------------
(* doParse, lines 168-245: one turn of the read loop per action.           *)

InLoop == pc = "parse" /\ Top.at = "loop"

(* A rune that completes no tag.                                           *)
doParseRune ==
  /\ InLoop /\ CanRead(Top)
  /\ ReadRune(Top).event = "none"
  /\ frames' = ReplaceTop(ReadRune(Top).frame)
  /\ UNCHANGED <<sections, stack, opened, origin, pc, ret, sink>>
  /\ UNCHANGED envVars
  /\ UNCHANGED procVars

(* A rune that completes an opening tag (lines 194-202).                   *)
doParseOpenTag ==
  /\ InLoop /\ CanRead(Top)
  /\ ReadRune(Top).event \in {"open", "panic"}
  /\ ~TagIsOpen(Top)
  /\ LET r == ReadRune(Top)
     IN  IF r.event = "panic"
           THEN /\ pc' = "panic"
                /\ UNCHANGED <<frames, sections, origin>>
           ELSE /\ frames' = ReplaceTop(r.frame)
                /\ sections' = pushStatic(sections, r.pushed[1])
                /\ origin' = Append(origin,
                      Origin(Top,
                             Top.pos - Len(Top.buffer) + Len(r.pushed[1]),
                             r.pushed[1]))
                /\ pc' = pc
  /\ UNCHANGED <<stack, opened, ret, sink>>
  /\ UNCHANGED envVars
  /\ UNCHANGED procVars

(* A rune that completes the closing tag of a code tag (lines 204-207).    *)
doParseCode ==
  /\ InLoop /\ CanRead(Top)
  /\ TagIsOpen(Top)
  /\ ReadRune(Top).event \in {"code", "panic"}
  /\ LET r == ReadRune(Top)
     IN  IF r.event = "panic"
           THEN /\ pc' = "panic"
                /\ UNCHANGED <<frames, sections, origin>>
           ELSE /\ frames' = ReplaceTop(CloseTag(r.frame))
                /\ sections' = pushCode(sections, r.content)
                /\ origin' = Append(origin,
                      Origin(Top, r.frame.pos - r.frame.close.Length,
                             r.content))
                /\ pc' = pc
  /\ UNCHANGED <<stack, opened, ret, sink>>
  /\ UNCHANGED envVars
  /\ UNCHANGED procVars

(* The hard path of an insertion (lines 209-219).                          *)
InsertHardPath(f, givenPath) ==
  LET hardDir == IF IsAbs(givenPath) THEN siteRoot ELSE f.templateDir
  IN  Join(hardDir, givenPath)

(* The child resolving relative paths in the directory of its caller.      *)
ChildTemplateDirOfCaller(f, hardPath) == f.templateDir

(* Line 233: the directory that the child resolves relative paths in.      *)
ChildTemplateDir(f, hardPath) == Dir(hardPath)

(* A rune that completes the closing tag of an insertion whose file does   *)
(* not exist (lines 209-224).                                              *)
doParseInsertStatFails ==
  /\ InLoop /\ CanRead(Top)
  /\ ReadRune(Top).event = "insert"
  /\ \E r \in {ReadRune(Top)} :
     \E givenPath \in {TrimSpace(r.content)} :
     \E hardPath \in {InsertHardPath(r.frame, givenPath)} :
       /\ ~Stat(hardPath).ok
       /\ Fail([kind |-> "stat", path |-> hardPath])
  /\ UNCHANGED <<sections, stack, opened, origin>>
  /\ UNCHANGED envVars
  /\ UNCHANGED procVars

(* A rune that completes the closing tag of an insertion: the entry is     *)
(* pushed and doParse is called for the child (lines 209-234).             *)
doParseInsert ==
  /\ InLoop /\ CanRead(Top)
  /\ ReadRune(Top).event = "insert"
  /\ \E r \in {ReadRune(Top)} :
     \E givenPath \in {TrimSpace(r.content)} :
     \E hardPath \in {InsertHardPath(r.frame, givenPath)} :
     LET entry == Entry(givenPath, hardPath, Stat(hardPath).FileInfo,
                        r.frame.lineIndex)
         childTemplateDir == ChildTemplateDir(r.frame, hardPath)
     IN  /\ Stat(hardPath).ok
         /\ stack' = Append(stack, entry)
         /\ frames' = Append(ReplaceTop([r.frame EXCEPT !.at = "call"]),
                             NewFrame(childTemplateDir))
  /\ UNCHANGED <<sections, opened, origin, pc, ret, sink>>
  /\ UNCHANGED envVars
  /\ UNCHANGED procVars

(* End of stream in a child: the rest of the buffer is pushed, the child   *)
(* returns nil and the caller pops the entry and closes the tag            *)
(* (lines 177-185, 235-241).                                               *)
doParseReturn ==
  /\ InLoop /\ AtEOF(Top)
  /\ Len(frames) > 1
  /\ stack # <<>>
  /\ sections' = pushStatic(sections, Top.buffer)
  /\ origin' = Append(origin, Origin(Top, Top.pos, Top.buffer))
  /\ LET caller == frames[Len(frames) - 1]
         rest == SubSeq(frames, 1, Len(frames) - 2)
     IN  frames' = Append(rest, [CloseTag(caller) EXCEPT !.at = "loop"])
  /\ stack' = SubSeq(stack, 1, Len(stack) - 1)
  /\ UNCHANGED <<opened, pc, ret, sink>>
  /\ UNCHANGED envVars
  /\ UNCHANGED procVars

(* End of stream in the top-level template: parse returns nil              *)
(* (lines 177-185, 121).                                                   *)
doParseEOF ==
  /\ InLoop /\ AtEOF(Top)
  /\ Len(frames) = 1
  /\ sections' = pushStatic(sections, Top.buffer)
  /\ origin' = Append(origin, Origin(Top, Top.pos, Top.buffer))
  /\ frames' = <<>>
  /\ pc' = "normalize"
  /\ raw' = pushStatic(sections, Top.buffer)
  /\ UNCHANGED <<stack, opened, ret, sink>>
  /\ UNCHANGED envVars
  /\ UNCHANGED <<output, isImported, importedAs, seenName, importAs,
                 printPrefix>>

(* A read error other than end of stream (lines 186-190).                  *)
doParseReadFails ==
  /\ InLoop /\ ReadFails(Top)
  /\ Fail([kind |-> "read", path |-> Top.file])
  /\ UNCHANGED <<sections, stack, opened, origin>>
  /\ UNCHANGED envVars
  /\ UNCHANGED procVars

----------------------------------------------------------------------------
(* Process, lines 290-384: normalization of the section list.              *)

MergeStaticText == TRUE

IsCode(section) == section.Kind = Code

(* Leading sections dropped when blank, code sections included.            *)
RECURSIVE DiscardLeadingAnyKind(_)
DiscardLeadingAnyKind(secs) ==
  IF secs = <<>> THEN secs
  ELSE IF Len(TrimSpace(secs[1].Text)) # 0 THEN secs
  ELSE DiscardLeadingAnyKind(Tail(secs))

(* Lines 290-301.                                                          *)
RECURSIVE DiscardLeading(_)
DiscardLeading(secs) ==
  IF secs = <<>> THEN secs
  ELSE IF IsCode(secs[1]) THEN secs
  ELSE IF Len(TrimSpace(secs[1].Text)) # 0 THEN secs
  ELSE DiscardLeading(Tail(secs))

(* Lines 303-314.                                                          *)
RECURSIVE DiscardTrailing(_)
DiscardTrailing(secs) ==
  IF secs = <<>> THEN secs
  ELSE IF IsCode(secs[Len(secs)]) THEN secs
  ELSE IF Len(TrimSpace(secs[Len(secs)].Text)) # 0 THEN secs
  ELSE DiscardTrailing(SubSeq(secs, 1, Len(secs) - 1))

(* Lines 318-330, as positions 1..Len, 0 when there is no code section.    *)
CodeLeft(secs) ==
  IF \E i \in 1..Len(secs) : IsCode(secs[i])
    THEN CHOOSE i \in 1..Len(secs) :
           IsCode(secs[i]) /\ \A j \in 1..(i - 1) : ~IsCode(secs[j])
    ELSE 0

CodeRight(secs) ==
  IF \E i \in 1..Len(secs) : IsCode(secs[i])
    THEN CHOOSE i \in 1..Len(secs) :
           IsCode(secs[i]) /\ \A j \in (i + 1)..Len(secs) : ~IsCode(secs[j])
    ELSE 0

(* A forward walk that goes on after the first section with other text.    *)
RECURSIVE TrimForwardEvery(_, _, _)
TrimForwardEvery(secs, i, codeRight) ==
  IF i >= codeRight THEN secs
  ELSE IF secs[i].Kind = Static
    THEN TrimForwardEvery([secs EXCEPT ![i].Text = TrimLeft(secs[i].Text)],
                          i + 1, codeRight)
    ELSE TrimForwardEvery(secs, i + 1, codeRight)

(* A forward walk that stops at the first Literal section, empty or not.   *)
RECURSIVE TrimForwardOnce(_, _, _)
TrimForwardOnce(secs, i, codeRight) ==
  IF i >= codeRight THEN secs
  ELSE IF secs[i].Kind = Static
    THEN [secs EXCEPT ![i].Text = TrimLeft(secs[i].Text)]
    ELSE TrimForwardOnce(secs, i + 1, codeRight)

(* Lines 333-341.                                                          *)
RECURSIVE TrimForward(_, _, _)
TrimForward(secs, i, codeRight) ==
  IF i >= codeRight THEN secs
  ELSE IF secs[i].Kind = Static
    THEN LET text == TrimLeft(secs[i].Text)
             next == [secs EXCEPT ![i].Text = text]
         IN  IF Len(text) # 0 THEN next
             ELSE TrimForward(next, i + 1, codeRight)
    ELSE TrimForward(secs, i + 1, codeRight)

(* A backward walk that appends the newline to every section it passes.    *)
RECURSIVE TrimBackwardNewlines(_, _, _)
TrimBackwardNewlines(secs, i, codeLeft) ==
  IF i <= codeLeft THEN secs
  ELSE IF secs[i].Kind = Static
    THEN LET text == TrimRight(secs[i].Text)
             next == [secs EXCEPT ![i].Text = Append(text, "\n")]
         IN  IF Len(text) # 0 THEN next
             ELSE TrimBackwardNewlines(next, i - 1, codeLeft)
    ELSE TrimBackwardNewlines(secs, i - 1, codeLeft)

(* Lines 342-352.                                                          *)
RECURSIVE TrimBackward(_, _, _)
TrimBackward(secs, i, codeLeft) ==
  IF i <= codeLeft THEN secs
  ELSE IF secs[i].Kind = Static
    THEN LET text == TrimRight(secs[i].Text)
         IN  IF Len(text) # 0
               THEN [secs EXCEPT ![i].Text = Append(text, "\n")]
               ELSE TrimBackward([secs EXCEPT ![i].Text = text], i - 1,
                                 codeLeft)
    ELSE TrimBackward(secs, i - 1, codeLeft)

(* The two walks over the whole list instead of between the Code sections. *)
TrimInnerWhole(secs) ==
  TrimBackward(TrimForward(secs, 1, Len(secs) + 1), Len(secs), 0)

TrimInner(secs) ==
  LET codeLeft == CodeLeft(secs)
      codeRight == CodeRight(secs)
  IN  TrimBackward(TrimForward(secs, codeLeft + 1, codeRight),
                   codeRight - 1, codeLeft)

(* Lines 355-374.                                                          *)
RECURSIVE SeekStatic(_, _)
SeekStatic(secs, seek) ==
  IF seek <= Len(secs) /\ secs[seek].Kind = Static
    THEN SeekStatic(secs, seek + 1)
    ELSE seek

RECURSIVE MergeFrom(_, _, _)
MergeFrom(secs, pos, newSections) ==
  IF pos > Len(secs) THEN newSections
  ELSE IF IsCode(secs[pos]) \/ pos = Len(secs) \/ IsCode(secs[pos + 1])
    THEN MergeFrom(secs, pos + 1, Append(newSections, secs[pos]))
  ELSE LET seek == SeekStatic(secs, pos)
           text == Flatten([k \in 1..(seek - pos) |-> secs[pos + k - 1].Text])
       IN  MergeFrom(secs, seek, Append(newSections, Section(Static, text)))

Merge(secs) == IF MergeStaticText THEN MergeFrom(secs, 1, <<>>) ELSE secs

(* Lines 376-384.                                                          *)
RECURSIVE DiscardBlank(_)
DiscardBlank(secs) ==
  IF secs = <<>> THEN <<>>
  ELSE IF Len(TrimSpace(secs[1].Text)) # 0
    THEN <<secs[1]>> \o DiscardBlank(Tail(secs))
    ELSE DiscardBlank(Tail(secs))

ProcessDiscardEnds ==
  /\ pc = "normalize"
  /\ sections' = DiscardTrailing(DiscardLeading(sections))
  /\ pc' = "trim"
  /\ UNCHANGED <<stack, frames, opened, origin, ret, sink>>
  /\ UNCHANGED envVars
  /\ UNCHANGED procVars

ProcessTrim ==
  /\ pc = "trim"
  /\ sections' = TrimInner(sections)
  /\ pc' = "merge"
  /\ UNCHANGED <<stack, frames, opened, origin, ret, sink>>
  /\ UNCHANGED envVars
  /\ UNCHANGED procVars

ProcessMerge ==
  /\ pc = "merge"
  /\ sections' = DiscardBlank(Merge(sections))
  /\ pc' = "probe"
  /\ UNCHANGED <<stack, frames, opened, origin, ret, sink>>
  /\ UNCHANGED envVars
  /\ UNCHANGED procVars

----------------------------------------------------------------------------
(* Process, lines 386-449: the probe parse and the emission namespace.     *)

seekPath == <<"g", "i", "t", "h", "u", "b", ".", "c", "o", "m", "/", "m", "i", "c", "h", "a", "e", "l", "l", "a", "s", "z", "l", "o", "/", "b", "o", "o", "m", "e", "r", "a", "n", "g", "/", "r", "u", "n", "t", "i", "m", "e">>
printCall == <<"W", "r", "i", "t", "e", "S", "t", "r", "i", "n", "g">>

(* path.Base of an import path.                                            *)
Base(p) == LET comps == SplitPath(p) IN comps[Len(comps)]

seekName == Base(seekPath)

(* strconv.Unquote of the literal of an import path.                       *)
Unquote(lit) == SubSeq(lit, 2, Len(lit) - 1)

Quote(text) == <<"\"">> \o text \o <<"\"">>

(* An ast.ImportSpec: the path literal and the name, <<>> for no name.     *)
ImportSpec(name, path) == [Name |-> name, Path |-> Quote(path)]

ImportName(importSpec) ==
  IF importSpec.Name = <<>> THEN Base(Unquote(importSpec.Path))
  ELSE importSpec.Name

(* The loop over the imports with the last matching import winning.       *)
RECURSIVE ScanImportsLastWins(_, _)
ScanImportsLastWins(imports, n) ==
  IF n = 0 THEN [isImported |-> FALSE, importedAs |-> <<>>, seenName |-> {}]
  ELSE LET before == ScanImportsLastWins(imports, n - 1)
           importPath == Unquote(imports[n].Path)
           importName == ImportName(imports[n])
           match == importPath = seekPath /\ importName # <<"_">>
       IN  [isImported |-> before.isImported \/ match,
            importedAs |-> IF match THEN importName ELSE before.importedAs,
            seenName |-> before.seenName \cup {importName}]

(* Lines 416-429: the state after the loop over the first n imports.       *)
RECURSIVE ScanImports(_, _)
ScanImports(imports, n) ==
  IF n = 0 THEN [isImported |-> FALSE, importedAs |-> <<>>, seenName |-> {}]
  ELSE LET before == ScanImports(imports, n - 1)
           importPath == Unquote(imports[n].Path)
           importName == ImportName(imports[n])
           first == /\ ~before.isImported
                    /\ importPath = seekPath
                    /\ importName # <<"_">>
       IN  [isImported |-> before.isImported \/ first,
            importedAs |-> IF first THEN importName ELSE before.importedAs,
            seenName |-> before.seenName \cup {importName}]

(* Lines 440-446.                                                          *)
RECURSIVE FreshName(_, _)
FreshName(seen, i) ==
  LET candidate == seekName \o <<"_">> \o Itoa(i)
  IN  IF candidate \notin seen THEN candidate ELSE FreshName(seen, i + 1)

(* The canonical name chosen without looking at the names in use.          *)
ChooseImportAsCanonical(imported, seen) == IF imported THEN <<>> ELSE seekName

(* Lines 431-449.                                                          *)
ChooseImportAs(imported, seen) ==
  IF imported THEN <<>>
  ELSE IF seekName \notin seen THEN seekName
  ELSE FreshName(seen, 0)

ChoosePrefix(imported, asName, chosen) ==
  IF imported
    THEN IF asName # <<".">> THEN asName \o <<".">> ELSE <<>>
    ELSE chosen \o <<".">>

(* A probe buffer that holds the text of the Literal sections too.         *)
RECURSIVE CodeOnlyEverySection(_, _)
CodeOnlyEverySection(secs, i) ==
  IF i > Len(secs) THEN <<>>
  ELSE <<[sec |-> i, text |-> secs[i].Text, piece |-> <<>>],
         [sec |-> i, text |-> <<"\n">>, piece |-> <<>>]>>
         \o CodeOnlyEverySection(secs, i + 1)

(* The probe buffer of lines 389-395.                                      *)
RECURSIVE CodeOnly(_, _)
CodeOnly(secs, i) ==
  IF i > Len(secs) THEN <<>>
  ELSE IF IsCode(secs[i])
    THEN <<[sec |-> i, text |-> secs[i].Text, piece |-> <<>>],
           [sec |-> i, text |-> <<"\n">>, piece |-> <<>>]>>
           \o CodeOnly(secs, i + 1)
    ELSE CodeOnly(secs, i + 1)

Bytes(writes) == Flatten([k \in 1..Len(writes) |-> writes[k].text])

ProcessProbeFails ==
  /\ pc = "probe"
  /\ goParser.probeFails
  /\ output' = CodeOnly(sections, 1)
  /\ sink' = Append(sink, [kind |-> "CodeError",
                           source |-> Bytes(CodeOnly(sections, 1))])
  /\ ret' = [kind |-> "syntax", stage |-> "probe"]
  /\ pc' = "done"
  /\ UNCHANGED <<sections, stack, frames, opened, origin, raw>>
  /\ UNCHANGED nameVars
  /\ UNCHANGED envVars

ProcessImports ==
  /\ pc = "probe"
  /\ ~goParser.probeFails
  /\ output' = CodeOnly(sections, 1)
  /\ LET scan == ScanImports(goParser.Imports, Len(goParser.Imports))
         chosen == ChooseImportAs(scan.isImported, scan.seenName)
     IN  /\ isImported' = scan.isImported
         /\ importedAs' = scan.importedAs
         /\ seenName' = scan.seenName
         /\ importAs' = chosen
         /\ printPrefix' = ChoosePrefix(scan.isImported, scan.importedAs,
                                        chosen)
  /\ pc' = "rewrite"
  /\ UNCHANGED <<sections, stack, frames, opened, origin, raw, ret, sink>>
  /\ UNCHANGED envVars

----------------------------------------------------------------------------
(* Process, lines 451-488: the rewritten source, the final parse and the   *)
(* formatted program.                                                      *)

(* The back quote rune; a TLA+ string cannot hold the character itself.    *)
BackQuote == "bq"

(* fmt.Sprintf of a text between two back quotes (lines 264, 271).         *)
RawLiteral(text) == <<BackQuote>> \o text \o <<BackQuote>>

BackQuoteRune == <<"'", BackQuote, "'">>

(* Lines 257-274: the loop over content from index pos (counted from 0).   *)
RECURSIVE makeRawStringsFrom(_, _, _, _)
makeRawStringsFrom(content, pos, from, pieces) ==
  IF pos = Len(content)
    THEN IF from # Len(content)
           THEN Append(pieces, RawLiteral(SubSeq(content, from + 1,
                                                 Len(content))))
           ELSE pieces
  ELSE IF content[pos + 1] = BackQuote
    THEN makeRawStringsFrom(content, pos + 1, pos + 1,
           Append(IF pos # from
                    THEN Append(pieces,
                                RawLiteral(SubSeq(content, from + 1, pos)))
                    ELSE pieces,
                  BackQuoteRune))
  ELSE makeRawStringsFrom(content, pos + 1, from, pieces)

(* The whole content in one pair of back quotes, without splitting.        *)
makeRawStringsUnsplit(content) == <<RawLiteral(content)>>

makeRawStrings(content) == makeRawStringsFrom(content, 0, 0, <<>>)

(* Line 460: fmt.Sprintf(";%s%s(%s);", printPrefix, printCall, piece).     *)
CallHead(prefix) == <<";">> \o prefix \o printCall \o <<"(">>
CallTail == <<")", ";">>
EmissionCall(prefix, piece) == CallHead(prefix) \o piece \o CallTail

(* Lines 455-456 and 458-462: what one section writes to output.           *)
SectionWrites(secs, i, prefix) ==
  IF IsCode(secs[i])
    THEN <<[sec |-> i, text |-> secs[i].Text, piece |-> <<>>],
           [sec |-> i, text |-> <<"\n">>, piece |-> <<>>]>>
    ELSE LET pieces == makeRawStrings(secs[i].Text)
         IN  [k \in 1..Len(pieces) |->
                [sec |-> i, text |-> Sprintf(EmissionCall(prefix, pieces[k])),
                 piece |-> pieces[k]]]

RECURSIVE Rewrite(_, _, _)
Rewrite(secs, i, prefix) ==
  IF i > Len(secs) THEN <<>>
  ELSE SectionWrites(secs, i, prefix) \o Rewrite(secs, i + 1, prefix)

ProcessRewrite ==
  /\ pc = "rewrite"
  /\ output' = Rewrite(sections, 1, printPrefix)
  /\ pc' = "final"
  /\ UNCHANGED <<sections, stack, frames, opened, origin, raw, ret, sink>>
  /\ UNCHANGED nameVars
  /\ UNCHANGED envVars

ProcessFinalFails ==
  /\ pc = "final"
  /\ goParser.finalFails
  /\ sink' = Append(sink, [kind |-> "OutputError", source |-> Bytes(output)])
  /\ ret' = [kind |-> "syntax", stage |-> "final"]
  /\ pc' = "done"
  /\ UNCHANGED <<sections, stack, frames, opened, origin>>
  /\ UNCHANGED procVars
  /\ UNCHANGED envVars

(* Lines 476-483: the import that is injected, if any.                     *)
AddedImports ==
  IF isImported THEN <<>>
  ELSE IF importAs = seekName THEN <<ImportSpec(<<>>, seekPath)>>
  ELSE <<ImportSpec(importAs, seekPath)>>

ProcessEmit ==
  /\ pc = "final"
  /\ ~goParser.finalFails
  /\ sink' = Append(sink, [kind |-> "Program", source |-> Bytes(output),
                           added |-> AddedImports])
  /\ pc' = "done"
  /\ UNCHANGED <<sections, stack, frames, opened, origin, ret>>
  /\ UNCHANGED procVars
  /\ UNCHANGED envVars

----------------------------------------------------------------------------
(* The explored inputs: a site, a top-level template and the verdict of    *)
(* the Go parser on the user's code.                                       *)

File(content, ino) ==
  [content |-> content, ino |-> ino, failAt |-> -1, canOpen |-> TRUE]

(* A directory can be opened but reading it fails.                         *)
Directory(ino) ==
  [content |-> <<>>, ino |-> ino, failAt |-> 0, canOpen |-> TRUE]

CodeTag(text) == OpenCodeText \o text \o CloseText
InsertTag(ref) == OpenInsertText \o ref \o CloseText

ContentsUpTo(chunks, n) ==
  {Flatten(cs) : cs \in UNION {[1..k -> chunks] : k \in 0..n}}

NoImports == [Imports |-> <<>>, probeFails |-> FALSE, finalFails |-> FALSE]

S == <<"s">>
D == <<"d">>
PathT == <<S, <<"t">>>>
PathA == <<S, D, <<"a">>>>
PathB == <<S, D, <<"b">>>>
PathB2 == <<S, <<"b">>>>
PathL == <<S, D, <<"l">>>>
PathN == <<S, D, <<"n">>>>
PathR == <<S, D, <<"r">>>>
PathW == <<S, <<"w">>>>
PathX == <<S, <<"x">>>>
TextT == <<"/", "s", "/", "t">>

Site(files) ==
  [p \in {<<S>>, <<S, D>>} \cup DOMAIN files |->
     IF p = <<S>> THEN Directory(1)
     ELSE IF p = <<S, D>> THEN Directory(2)
     ELSE files[p]]

Env(files, path, parser) ==
  [fs |-> Site(files), siteRoot |-> <<S>>, workingDirectory |-> <<S>>,
   templatePath |-> path, goParser |-> parser]

(* Scanner inputs: one template made of delimiters and their fragments.    *)
ScanChunks ==
  {<<"<">>, <<"?">>, <<"x">>, OpenCodeText, OpenInsertText, CloseText}

ScanEnvs ==
  {Env((PathT :> File(c, 10)) @@ (PathX :> File(<<"y">>, 11)), TextT,
       NoImports) : c \in ContentsUpTo(ScanChunks, MaxScanChunks)}

(* Insertion inputs: templates in two directories that insert one another, *)
(* by relative and by absolute references, a hard link to the top and a    *)
(* second template named b, in the directory of the top.                   *)
TopItems ==
  {<<"x">>, <<"\n">>,
   InsertTag(<<" ", "d", "/", "a", " ">>),
   InsertTag(<<"/", "d", "/", "b">>),
   InsertTag(<<"t">>)}

ContentsA ==
  {<<"y">>,
   InsertTag(<<"b">>) \o <<"y">>,
   InsertTag(<<"/", "t">>),
   InsertTag(<<"a">>),
   InsertTag(<<"l">>)}

ContentsB ==
  {<<"z">>,
   InsertTag(<<".", ".", "/", "t">>),
   <<"\n">> \o InsertTag(<<"a">>)}

InsertEnvs ==
  {Env((PathT :> File(t, 10)) @@ (PathL :> File(t, 10))
         @@ (PathA :> File(a, 11)) @@ (PathB :> File(b, 12))
         @@ (PathB2 :> File(<<"q">>, 13)),
       TextT, NoImports) :
     t \in ContentsUpTo(TopItems, MaxItems), a \in ContentsA, b \in ContentsB}

(* Normalization inputs: white space, text, code tags and the insertion of *)
(* a template that holds white space only.                                 *)
NormChunks ==
  {<<" ">>, <<"x">>, OpenCodeText, CloseText, InsertTag(<<"w">>)}

NormEnvs ==
  {Env((PathT :> File(c, 10)) @@ (PathW :> File(<<" ">>, 11)), TextT,
       NoImports) : c \in ContentsUpTo(NormChunks, MaxNormChunks)}

(* Trimming inputs: text with white space on both sides between code tags, *)
(* and the insertion of the white-space template.                          *)
PathV == <<S, <<"v">>>>

TrimChunks ==
  {<<" ", "x", " ">>, CodeTag(<<"c">>), CodeTag(<<"c">>) \o <<" ", "x", " ">>,
   InsertTag(<<"w">>), InsertTag(<<"v">>)}

TrimEnvs ==
  {Env((PathT :> File(c, 10)) @@ (PathW :> File(<<" ">>, 11))
         @@ (PathV :> File(<<" ", "y", " ">>, 12)),
       TextT, NoImports) : c \in ContentsUpTo(TrimChunks, MaxNormChunks)}

(* Literal inputs: text with back quotes and percent signs.                *)
LiteralChunks == {<<"x">>, <<BackQuote>>, <<"%">>}

LiteralEnvs ==
  {Env((PathT :> File(CodeTag(<<"c">>) \o c, 10)), TextT, NoImports) :
     c \in ContentsUpTo(LiteralChunks, MaxLiteralLen)}

(* Import inputs: what the user's code imports.                            *)
OtherPath == <<"o", "/", "r", "u", "n", "t", "i", "m", "e">>

ImportChoices ==
  {ImportSpec(<<>>, seekPath),
   ImportSpec(<<"_">>, seekPath),
   ImportSpec(<<".">>, seekPath),
   ImportSpec(<<"r">>, seekPath),
   ImportSpec(<<>>, OtherPath),
   ImportSpec(seekName \o <<"_", "0">>, OtherPath),
   ImportSpec(seekName \o <<"_", "1">>, OtherPath),
   ImportSpec(<<"f">>, OtherPath)}

ImportEnvs ==
  {Env((PathT :> File(CodeTag(<<"c">>) \o <<"x">>, 10)), TextT,
       [Imports |-> imports, probeFails |-> FALSE, finalFails |-> FALSE]) :
     imports \in UNION {[1..k -> ImportChoices] : k \in 0..MaxImports}}

(* Failures of the environment and a relative top-level path.              *)
EdgeEnvs ==
  {Env((PathT :> File(<<"x">>, 10)), <<"m">>, NoImports),
   Env((PathT :> File(InsertTag(<<"d", "/", "n">>), 10))
         @@ (PathN :> [File(<<"y">>, 11) EXCEPT !.canOpen = FALSE]),
       TextT, NoImports),
   Env((PathT :> File(<<"x">> \o InsertTag(<<"d", "/", "r">>), 10))
         @@ (PathR :> [File(<<"y", "y">>, 11) EXCEPT !.failAt = 1]),
       TextT, NoImports),
   Env((PathA :> File(InsertTag(<<"b">>), 11)) @@ (PathB :> File(<<"z">>, 12)),
       <<"d", "/", "a">>, NoImports),
   Env((PathT :> File(CodeTag(<<"c">>), 10)), TextT,
       [NoImports EXCEPT !.probeFails = TRUE]),
   Env((PathT :> File(CodeTag(<<"c">>), 10)), TextT,
       [NoImports EXCEPT !.finalFails = TRUE])}

(* Walk inputs: three Literal texts between two code tags, each of them   *)
(* text with white space around it, an inserted template of white space or *)
(* an inserted template with text.                                         *)
WalkChunks ==
  {<<" ", "x", " ">>, InsertTag(<<"w">>), InsertTag(<<"v">>)}

WalkEnvs ==
  {Env((PathT :> File(CodeTag(<<"c">>) \o a \o b \o c \o CodeTag(<<"c">>),
                      10))
         @@ (PathW :> File(<<" ">>, 11))
         @@ (PathV :> File(<<" ", "y", " ">>, 12)),
       TextT, NoImports) :
     a \in WalkChunks, b \in WalkChunks, c \in WalkChunks}

(* Code that go/parser rejects, between two Literal texts.                 *)
SyntaxEnvs ==
  {Env((PathT :> File(<<"x">> \o CodeTag(<<"c">>) \o <<"y">>, 10)), TextT,
       parser) : parser \in {[NoImports EXCEPT !.probeFails = TRUE],
                             [NoImports EXCEPT !.finalFails = TRUE]}}

(* Insertion graphs: three templates of which each is plain text or      *)
(* inserts any of the three, or two of them, or a file that is missing;    *)
(* the third may be a hard link to the top-level template.                 *)
CycleContents ==
  {<<"x">>,
   InsertTag(<<"/", "g">>),
   InsertTag(<<"/", "t">>),
   InsertTag(<<"/", "w">>),
   InsertTag(<<"/", "x">>),
   InsertTag(<<"/", "w">>) \o InsertTag(<<"/", "x">>)}

CycleEnvs ==
  {Env((PathT :> File(t, 10)) @@ (PathW :> File(w, 11))
         @@ (PathX :> File(x, 12)), TextT, NoImports) :
     t \in CycleContents, w \in CycleContents, x \in CycleContents}
  \cup
  {Env((PathT :> File(t, 10)) @@ (PathW :> File(w, 11))
         @@ (PathX :> File(t, 10)), TextT, NoImports) :
     t \in CycleContents, w \in CycleContents}

Envs ==
  ScanEnvs \cup InsertEnvs \cup NormEnvs \cup TrimEnvs \cup LiteralEnvs
    \cup ImportEnvs \cup EdgeEnvs \cup SyntaxEnvs \cup WalkEnvs

----------------------------------------------------------------------------
(* The compiler as a state machine.                                        *)

vars == <<fs, siteRoot, workingDirectory, templatePath, goParser, pc,
          sections, stack, frames, opened, origin, ret, sink, raw, output,
          isImported, importedAs, seenName, importAs, printPrefix, batch,
          parked, statusHeader, locationHeader, headers, contentBuffer,
          stdout, calls>>

(* Batch inputs: a site with a template that compiles, templates that fail *)
(* in every way and a template whose output file cannot be created; the    *)
(* driver is given up to MaxBatch of them, in any order, also repeated.     *)
Item(path, parser) == [path |-> path, parser |-> parser, canCreate |-> TRUE]

TopText(name) == <<"/", "s", "/", name>>
PathG == <<S, <<"g">>>>
PathI == <<S, <<"i">>>>
PathO == <<S, <<"o">>>>
PathP == <<S, <<"p">>>>
PathQ == <<S, <<"q">>>>
PathTopR == <<S, <<"r">>>>
PathY == <<S, <<"y">>>>

BatchSite ==
  Site((PathT :> File(CodeTag(<<"c">>) \o <<"x">>, 10))
    @@ (PathX :> File(<<"y">> \o InsertTag(<<"x">>), 11))
    @@ (PathO :> File(InsertTag(<<"/", "d", "/", "n">>), 12))
    @@ (PathN :> [File(<<"y">>, 13) EXCEPT !.canOpen = FALSE])
    @@ (PathTopR :> File(<<"x">> \o InsertTag(<<"/", "d", "/", "r">>), 14))
    @@ (PathR :> [File(<<"y", "y">>, 15) EXCEPT !.failAt = 1])
    @@ (PathI :> File(InsertTag(<<"/", "w">>) \o <<"\n">>
                        \o InsertTag(<<"/", "g">>), 16))
    @@ (PathW :> File(<<" ">>, 17))
    @@ (PathP :> File(CodeTag(<<"p">>), 18))
    @@ (PathQ :> File(CodeTag(<<"q">>) \o <<"z">>, 19))
    @@ (PathY :> File(<<"y">>, 20)))

BatchItems ==
  {Item(TopText("t"), NoImports),
   Item(TopText("x"), NoImports),
   Item(TopText("o"), NoImports),
   Item(TopText("r"), NoImports),
   Item(TopText("i"), NoImports),
   Item(TopText("p"), [NoImports EXCEPT !.probeFails = TRUE]),
   Item(TopText("q"), [NoImports EXCEPT !.finalFails = TRUE]),
   Item(<<"m">>, NoImports),
   [Item(TopText("y"), NoImports) EXCEPT !.canCreate = FALSE]}

BatchEnvs ==
  {[fs |-> BatchSite, siteRoot |-> <<S>>, workingDirectory |-> <<S>>,
    batch |-> b] : b \in UNION {[1..k -> BatchItems] : k \in 1..MaxBatch}}

(* No second call of Process.                                              *)
NoCall == [pc |-> "none"]

ContentTypeHeader ==
  <<"C", "o", "n", "t", "e", "n", "t", "-", "T", "y", "p", "e", ":", " ",
    "t", "e", "x", "t", "/", "h", "t", "m", "l", ";", " ", "c", "h", "a",
    "r", "s", "e", "t", "=", "u", "t", "f", "-", "8">>

(* The package variables of runtime as their declarations leave them       *)
(* (runtime.go, lines 79-84), and nothing written yet.                     *)
RuntimeLoaded ==
  /\ statusHeader = <<>>
  /\ locationHeader = <<>>
  /\ headers = <<ContentTypeHeader>>
  /\ contentBuffer = <<>>
  /\ stdout = <<>>
  /\ calls = <<>>

(* The state before the first statement of Process, in a new process.      *)
Fresh ==
  /\ sections = <<>>
  /\ stack = <<>>
  /\ frames = <<>>
  /\ opened = <<>>
  /\ origin = <<>>
  /\ ret = NoError
  /\ sink = <<>>
  /\ raw = <<>>
  /\ output = <<>>
  /\ isImported = FALSE
  /\ importedAs = <<>>
  /\ seenName = {}
  /\ importAs = <<>>
  /\ printPrefix = <<>>
  /\ RuntimeLoaded

Init ==
  /\ \E env \in Envs :
       /\ fs = env.fs
       /\ siteRoot = env.siteRoot
       /\ workingDirectory = env.workingDirectory
       /\ templatePath = env.templatePath
       /\ goParser = env.goParser
       /\ batch = <<Item(env.templatePath, env.goParser)>>
  /\ parked = NoCall
  /\ pc = "start"
  /\ Fresh

Next ==
  \/ parseStatFails
  \/ parse
  \/ doParseCycle
  \/ doParseOpenFails
  \/ doParseOpen
  \/ doParseRune
  \/ doParseOpenTag
  \/ doParseCode
  \/ doParseInsertStatFails
  \/ doParseInsert
  \/ doParseReturn
  \/ doParseEOF
  \/ doParseReadFails
  \/ ProcessDiscardEnds
  \/ ProcessTrim
  \/ ProcessMerge
  \/ ProcessProbeFails
  \/ ProcessImports
  \/ ProcessRewrite
  \/ ProcessFinalFails
  \/ ProcessEmit

Spec == Init /\ [][Next]_vars

(* The call of parse alone, on the insertion graphs and on the failures   *)
(* of the environment.  The program is one thread that runs until it       *)
(* returns: a step that is possible is taken.                              *)
ParseEnvs == CycleEnvs \cup EdgeEnvs \cup SyntaxEnvs

InitParse ==
  /\ \E env \in ParseEnvs :
       /\ fs = env.fs
       /\ siteRoot = env.siteRoot
       /\ workingDirectory = env.workingDirectory
       /\ templatePath = env.templatePath
       /\ goParser = env.goParser
       /\ batch = <<Item(env.templatePath, env.goParser)>>
  /\ parked = NoCall
  /\ pc = "start"
  /\ Fresh

NextParse ==
  \/ parseStatFails
  \/ parse
  \/ doParseCycle
  \/ doParseOpenFails
  \/ doParseOpen
  \/ doParseRune
  \/ doParseOpenTag
  \/ doParseCode
  \/ doParseInsertStatFails
  \/ doParseInsert
  \/ doParseReturn
  \/ doParseEOF
  \/ doParseReadFails

SpecParse == InitParse /\ [][NextParse]_vars /\ WF_vars(NextParse)

----------------------------------------------------------------------------
(* The driver buildapp: one call of Process per argument, one after the    *)
(* other in the same process, each with an output file of its own.  Entry  *)
(* k of sink is what was written to the output file of argument k.         *)

(* processTemplate, os.Create fails: the template is skipped.              *)
processTemplateCreateFails ==
  /\ pc = "done"
  /\ Len(sink) < Len(batch)
  /\ ~batch[Len(sink) + 1].canCreate
  /\ sink' = Append(sink, [kind |-> "NotCreated"])
  /\ UNCHANGED envVars
  /\ UNCHANGED <<pc, sections, stack, frames, opened, origin, ret>>
  /\ UNCHANGED procVars

(* processTemplate calls Process for the next argument: the locals of      *)
(* Process are new, the package variables are as the last call left them.  *)
processTemplate ==
  /\ pc = "done"
  /\ Len(sink) < Len(batch)
  /\ batch[Len(sink) + 1].canCreate
  /\ templatePath' = batch[Len(sink) + 1].path
  /\ goParser' = batch[Len(sink) + 1].parser
  /\ pc' = "start"
  /\ ret' = NoError
  /\ raw' = <<>>
  /\ output' = <<>>
  /\ isImported' = FALSE
  /\ importedAs' = <<>>
  /\ seenName' = {}
  /\ importAs' = <<>>
  /\ printPrefix' = <<>>
  /\ UNCHANGED <<fs, siteRoot, workingDirectory, batch, parked>>
  /\ UNCHANGED <<sections, stack, frames, opened, origin, sink>>
  /\ UNCHANGED runtimeVars

InitBatch ==
  /\ \E env \in BatchEnvs :
       /\ fs = env.fs
       /\ siteRoot = env.siteRoot
       /\ workingDirectory = env.workingDirectory
       /\ batch = env.batch
  /\ templatePath = <<>>
  /\ goParser = NoImports
  /\ parked = NoCall
  /\ pc = "done"
  /\ Fresh

NextBatch ==
  \/ Next
  \/ processTemplateCreateFails
  \/ processTemplate

SpecBatch == InitBatch /\ [][NextBatch]_vars

----------------------------------------------------------------------------
(* Two calls of Process in one process, their steps interleaved.  The      *)
(* variables of a call (its arguments, its locals, its activations of      *)
(* doParse and its writer) are those of the call that steps; those of the  *)
(* other call are kept in parked.  The package variables sections and      *)
(* stack exist once.                                                       *)

(* A call of Process before its first statement.                           *)
FreshCall(item) ==
  [templatePath |-> item.path, goParser |-> item.parser, pc |-> "start",
   frames |-> <<>>, ret |-> NoError, sink |-> <<>>, raw |-> <<>>,
   output |-> <<>>, isImported |-> FALSE, importedAs |-> <<>>,
   seenName |-> {}, importAs |-> <<>>, printPrefix |-> <<>>]

(* The scheduler lets the other call step.                                 *)
Switch ==
  /\ parked.pc \notin {"none", "done", "panic"}
  /\ pc # "panic"
  /\ parked' = [templatePath |-> templatePath, goParser |-> goParser,
                pc |-> pc, frames |-> frames, ret |-> ret, sink |-> sink,
                raw |-> raw, output |-> output, isImported |-> isImported,
                importedAs |-> importedAs, seenName |-> seenName,
                importAs |-> importAs, printPrefix |-> printPrefix]
  /\ templatePath' = parked.templatePath
  /\ goParser' = parked.goParser
  /\ pc' = parked.pc
  /\ frames' = parked.frames
  /\ ret' = parked.ret
  /\ sink' = parked.sink
  /\ raw' = parked.raw
  /\ output' = parked.output
  /\ isImported' = parked.isImported
  /\ importedAs' = parked.importedAs
  /\ seenName' = parked.seenName
  /\ importAs' = parked.importAs
  /\ printPrefix' = parked.printPrefix
  /\ UNCHANGED <<fs, siteRoot, workingDirectory, batch, sections, stack,
                 opened, origin>>
  /\ UNCHANGED runtimeVars

(* The stack was emptied by the other call: stack[len(stack)-1] of line    *)
(* 126 and stack[:len(stack)-1] of line 238 are out of range and the       *)
(* process ends in a run-time panic.                                       *)
doParsePanics ==
  /\ pc = "parse"
  /\ stack = <<>>
  /\ \/ Top.at = "entry"
     \/ InLoop /\ AtEOF(Top) /\ Len(frames) > 1
  /\ pc' = "panic"
  /\ parked' = [parked EXCEPT !.pc = "panic"]
  /\ UNCHANGED <<fs, siteRoot, workingDirectory, templatePath, goParser,
                 batch>>
  /\ UNCHANGED <<sections, stack, frames, opened, origin, ret, sink>>
  /\ UNCHANGED procVars
  /\ UNCHANGED runtimeVars

(* Parallel inputs: any template of the batch site, next to the template   *)
(* of plain text or to the template with two insertions.                   *)
ParallelItems == {[item EXCEPT !.canCreate = TRUE] : item \in BatchItems}

ParallelSeconds ==
  {Item(TopText("y"), NoImports), Item(TopText("i"), NoImports)}

InitParallel ==
  /\ \E a \in ParallelItems, b \in ParallelSeconds :
       /\ a # b
       /\ templatePath = a.path
       /\ goParser = a.parser
       /\ batch = <<a, b>>
       /\ parked = FreshCall(b)
  /\ fs = BatchSite
  /\ siteRoot = <<S>>
  /\ workingDirectory = <<S>>
  /\ pc = "start"
  /\ Fresh

NextParallel ==
  \/ Next
  \/ Switch
  \/ doParsePanics

SpecParallel == InitParallel /\ [][NextParallel]_vars

----------------------------------------------------------------------------
(* The package runtime, as a compiled program uses it: any calls of its    *)
(* functions in any order.  Every text is ASCII, so that len counts the    *)
(* elements of a text.                                                     *)

StatusPrefix == <<"S", "t", "a", "t", "u", "s", ":", " ">>
LocationPrefix == <<"L", "o", "c", "a", "t", "i", "o", "n", ":", " ">>
ContentLengthPrefix ==
  <<"C", "o", "n", "t", "e", "n", "t", "-", "L", "e", "n", "g", "t", "h",
    ":", " ">>
MovedPermanently ==
  <<"M", "o", "v", "e", "d", " ", "P", "e", "r", "m", "a", "n", "e", "n",
    "t", "l", "y">>

(* fmt.Sprintf("Status: %d %s", statusCode, reasonPhrase), line 151.       *)
StatusText(statusCode, reasonPhrase) ==
  StatusPrefix \o Itoa(statusCode) \o <<" ">> \o reasonPhrase

(* "Location: " + url, line 166.                                           *)
LocationText(url) == LocationPrefix \o url

(* A length header without the line end that line 128 puts into it.        *)
ContentLengthBare(n) == ContentLengthPrefix \o Itoa(n)

(* fmt.Sprintf("Content-Length: %d\n", len(contentString)), line 128.      *)
ContentLengthText(n) == ContentLengthPrefix \o Itoa(n) \o <<"\n">>

(* The arguments that the explored programs pass.                          *)
OutputTexts == {<<"a">>, <<" ">>, <<"\n", "b">>}
PrintTexts == {<<"d">>}
Formats == {<<"%", "%">>}
Statuses == {[code |-> 200, phrase |-> <<"O", "K">>],
             [code |-> 404, phrase |-> <<"N", "o">>]}
Urls == {<<"/", "a">>, <<"/", "b">>}
RedirectStatuses == {[code |-> 302, phrase |-> <<"F", "o", "u", "n", "d">>]}

(* What belongs to the compiler and its driver: a compiled program does   *)
(* not touch it.                                                           *)
compilerVars ==
  <<fs, siteRoot, workingDirectory, templatePath, goParser, pc, sections,
    stack, frames, opened, origin, ret, sink, raw, output, isImported,
    importedAs, seenName, importAs, printPrefix, batch, parked>>

CanCall == Len(calls) < MaxCalls

Called(call) ==
  /\ calls' = Append(calls, call)
  /\ UNCHANGED compilerVars

WriteString(text) ==
  /\ CanCall
  /\ contentBuffer' = contentBuffer \o text
  /\ Called([op |-> "WriteString", text |-> text])
  /\ UNCHANGED <<statusHeader, locationHeader, headers, stdout>>

RuntimePrint(text) ==
  /\ CanCall
  /\ contentBuffer' = contentBuffer \o text
  /\ Called([op |-> "Print", text |-> text])
  /\ UNCHANGED <<statusHeader, locationHeader, headers, stdout>>

RuntimePrintln(text) ==
  /\ CanCall
  /\ contentBuffer' = contentBuffer \o text \o <<"\n">>
  /\ Called([op |-> "Println", text |-> text])
  /\ UNCHANGED <<statusHeader, locationHeader, headers, stdout>>

RuntimePrintf(format) ==
  /\ CanCall
  /\ contentBuffer' = contentBuffer \o Sprintf(format)
  /\ Called([op |-> "Printf", text |-> format])
  /\ UNCHANGED <<statusHeader, locationHeader, headers, stdout>>

SetHTTPStatus(statusCode, reasonPhrase) ==
  /\ CanCall
  /\ statusHeader' = StatusText(statusCode, reasonPhrase)
  /\ Called([op |-> "SetHTTPStatus", code |-> statusCode,
             phrase |-> reasonPhrase])
  /\ UNCHANGED <<locationHeader, headers, contentBuffer, stdout>>

RedirectWithStatus(url, statusCode, reasonPhrase) ==
  /\ CanCall
  /\ statusHeader' = StatusText(statusCode, reasonPhrase)
  /\ locationHeader' = LocationText(url)
  /\ Called([op |-> "RedirectWithStatus", url |-> url, code |-> statusCode,
             phrase |-> reasonPhrase])
  /\ UNCHANGED <<headers, contentBuffer, stdout>>

Redirect(url) ==
  /\ CanCall
  /\ statusHeader' = StatusText(301, MovedPermanently)
  /\ locationHeader' = LocationText(url)
  /\ Called([op |-> "Redirect", url |-> url, code |-> 301,
             phrase |-> MovedPermanently])
  /\ UNCHANGED <<headers, contentBuffer, stdout>>

(* The headers that PrintCGI joins (lines 122-128).                        *)
ResponseHeaders(contentString) ==
  LET h1 == IF statusHeader # <<>> THEN Append(headers, statusHeader)
            ELSE headers
      h2 == IF locationHeader # <<>> THEN Append(h1, locationHeader) ELSE h1
  IN  Append(h2, ContentLengthText(Len(contentString)))

PrintCGI ==
  /\ CanCall
  /\ LET contentString == TrimSpace(contentBuffer)
         hs == ResponseHeaders(contentString)
     IN  /\ headers' = hs
         /\ stdout' = Append(stdout,
               [by |-> "PrintCGI",
                text |-> JoinText(hs, <<"\n">>) \o <<"\n">> \o contentString
                           \o <<"\n">>])
  /\ Called([op |-> "PrintCGI"])
  /\ UNCHANGED <<statusHeader, locationHeader, contentBuffer>>

(* bytes.Buffer.WriteTo drains the buffer.                                 *)
PrintBody ==
  /\ CanCall
  /\ stdout' = Append(stdout, [by |-> "PrintBody", text |-> contentBuffer])
  /\ contentBuffer' = <<>>
  /\ Called([op |-> "PrintBody"])
  /\ UNCHANGED <<statusHeader, locationHeader, headers>>

InitRuntime ==
  /\ fs = Site(<<>>)
  /\ siteRoot = <<S>>
  /\ workingDirectory = <<S>>
  /\ templatePath = <<>>
  /\ goParser = NoImports
  /\ batch = <<>>
  /\ parked = NoCall
  /\ pc = "done"
  /\ Fresh

NextRuntime ==
  \/ \E text \in OutputTexts : WriteString(text)
  \/ \E text \in PrintTexts : RuntimePrint(text)
  \/ \E text \in PrintTexts : RuntimePrintln(text)
  \/ \E format \in Formats : RuntimePrintf(format)
  \/ \E st \in Statuses : SetHTTPStatus(st.code, st.phrase)
  \/ \E url \in Urls : Redirect(url)
  \/ \E url \in Urls, st \in RedirectStatuses :
       RedirectWithStatus(url, st.code, st.phrase)
  \/ PrintCGI
  \/ PrintBody

SpecRuntime == InitRuntime /\ [][NextRuntime]_vars

----------------------------------------------------------------------------
(* Properties of the inclusion of child templates.                         *)

(* The trace that a cycle error is expected to carry: the top-level        *)
(* reference, then every child reference with its insertion line.          *)
ExpectedTrace ==
  [j \in 1..Len(stack) |->
     IF j = 1 THEN stack[j].GivenPath
     ELSE <<"-", ">", " ", "l", "i", "n", "e", " ">>
            \o Itoa(stack[j].InsertionLine) \o <<":", " ">>
            \o stack[j].GivenPath]

RepeatedOnStack ==
  \E i, j \in 1..Len(stack) : i < j /\ stack[i].FileInfo = stack[j].FileInfo

LabelLess(a, b) ==
  \/ \E k \in 1..Len(a) :
       /\ k <= Len(b)
       /\ a[k] < b[k]
       /\ \A j \in 1..(k - 1) : a[j] = b[j]
  \/ /\ Len(a) > Len(b)
     /\ \A j \in 1..Len(b) : a[j] = b[j]

(* C2: the section list is in the document order of the fully expanded     *)
(* template: every section holds the text of the range it was read from,   *)
(* and the sections of an inserted child lie between the caller's sections *)
(* before the insertion tag and the caller's sections after it.            *)
C2_DocumentOrder ==
  pc \in {"parse", "normalize"} =>
    /\ Len(origin) = Len(sections)
    /\ \A i \in 1..Len(sections) :
         sections[i].Text = SubSeq(fs[origin[i].file].content,
                                   origin[i].from + 1, origin[i].to)
    /\ \A i, j \in 1..Len(origin) :
         i < j => LabelLess(origin[i].label, origin[j].label)

(* Caller text, then child text, then caller text again.                   *)
C2_Witness ==
  /\ pc = "normalize"
  /\ \E i, j, k \in 1..Len(sections) :
       /\ i < j /\ j < k
       /\ Len(origin[i].label) = 1 /\ sections[i].Text # <<>>
       /\ Len(origin[j].label) = 2 /\ sections[j].Text # <<>>
       /\ Len(origin[k].label) = 1 /\ sections[k].Text # <<>>

(* C3: an absolute reference resolves against the site root and a relative *)
(* reference against the directory of the template that issued the         *)
(* insertion, at every depth and also after a child has returned.          *)
C3_PathRule ==
  \A i \in 2..Len(stack) :
    stack[i].HardPath =
      Join(IF stack[i].GivenPath # <<>> /\ stack[i].GivenPath[1] = "/"
             THEN siteRoot
             ELSE Dir(stack[i - 1].HardPath),
           stack[i].GivenPath)

(* A relative insertion issued two levels down, from a template that lies  *)
(* in another directory than the top-level template, after an earlier      *)
(* child has returned.                                                     *)
C3_Witness ==
  /\ Len(stack) = 3
  /\ stack[3].GivenPath[1] # "/"
  /\ Dir(stack[2].HardPath) # Dir(stack[1].HardPath)
  /\ stack[3].HardPath = Dir(stack[2].HardPath) \o <<stack[3].GivenPath>>
  /\ Len(opened) > Len(frames)


----------------------------------------------------------------------------
(* Properties of the tag scanner.                                          *)

(* C4: the text is split exactly at the delimiters: outside a tag every    *)
(* contiguous occurrence of an opening delimiter opens a tag, inside a tag *)
(* the first contiguous occurrence of the closing delimiter ends it, also  *)
(* when the delimiter follows a prefix of itself.  The buffer is emptied   *)
(* at every delimiter, so at the head of the read loop it never ends with  *)
(* a delimiter that should have been recognized.                           *)
C4_SplitAtDelimiters ==
  InLoop =>
    IF Top.open = "nil"
      THEN /\ ~EndsWith(Top.buffer, OpenCodeText)
           /\ ~EndsWith(Top.buffer, OpenInsertText)
      ELSE ~EndsWith(Top.buffer, CloseText)

(* C5: while a tag is open the opening patterns are not tested, so an      *)
(* opening delimiter in a tag body stays in the buffer: a rune read inside *)
(* a tag either is kept, with no section and no error, or completes the    *)
(* closing delimiter, and then the whole body becomes the code text or the *)
(* insertion reference.                                                    *)
C5_NoNestedTags ==
  [][(InLoop /\ Top.open # "nil" /\ CanRead(Top)) =>
       LET f == Top
           body == Append(f.buffer, Content(f)[f.pos + 1])
           cut == SubSeq(body, 1, Len(body) - Len(CloseText))
           kept == /\ Len(frames') = Len(frames)
                   /\ frames'[Len(frames')].open = f.open
                   /\ frames'[Len(frames')].buffer = body
                   /\ frames'[Len(frames')].codePattern = f.codePattern
                   /\ frames'[Len(frames')].insertPattern = f.insertPattern
                   /\ sections' = sections
                   /\ ret' = ret
           code == /\ f.open = "code"
                   /\ Len(frames') = Len(frames)
                   /\ frames'[Len(frames')].open = "nil"
                   /\ frames'[Len(frames')].codePattern = f.codePattern
                   /\ frames'[Len(frames')].insertPattern = f.insertPattern
                   /\ sections' = Append(sections, Section(Code, cut))
                   /\ ret' = ret
           insert == /\ f.open = "insert"
                     /\ sections' = sections
                     /\ \/ /\ Len(frames') = Len(frames) + 1
                           /\ stack'[Len(stack')].GivenPath = TrimSpace(cut)
                           /\ ret' = ret
                        \/ frames' = <<>> /\ ret'.kind = "stat"
       IN  \/ kept
           \/ EndsWith(body, CloseText) /\ (code \/ insert)]_vars

(* A code section that holds an opening delimiter.                         *)
C5_Witness ==
  /\ pc = "normalize"
  /\ \E i \in 1..Len(sections) :
       /\ sections[i].Kind = Code
       /\ \/ Contains(sections[i].Text, OpenCodeText)
          \/ Contains(sections[i].Text, OpenInsertText)


----------------------------------------------------------------------------
(* Properties of the rewritten source.                                     *)

(* The writes that section i made to the output buffer.                    *)
WritesOf(i) == SelectSeq(output, LAMBDA w : w.sec = i)

Invalid == <<"invalid">>

(* The text that a Go literal denotes: a raw string without back quote in  *)
(* it, or the rune literal of the back quote.                              *)
Denoted(lit) ==
  IF lit = <<"'", BackQuote, "'">> THEN <<BackQuote>>
  ELSE IF /\ Len(lit) >= 2
          /\ lit[1] = BackQuote
          /\ lit[Len(lit)] = BackQuote
          /\ \A k \in 2..(Len(lit) - 1) : lit[k] # BackQuote
    THEN SubSeq(lit, 2, Len(lit) - 1)
    ELSE Invalid

(* The argument of an emission call, if the text is one.                   *)
Argument(call) ==
  LET head == <<";">> \o printPrefix \o printCall \o <<"(">>
  IN  IF /\ StartsWith(call, head)
         /\ EndsWith(call, <<")", ";">>)
         /\ Len(call) >= Len(head) + 2
        THEN SubSeq(call, Len(head) + 1, Len(call) - 2)
        ELSE Invalid

(* C6: in the rewritten buffer every code section is written unchanged,    *)
(* followed by a newline, and the literals that the emission calls of a    *)
(* static section print, concatenated in order, are the text of the        *)
(* section.                                                                *)
C6_RewriteExact ==
  pc = "final" =>
    \A i \in 1..Len(sections) :
      LET writes == WritesOf(i)
      IN  IF sections[i].Kind = Code
            THEN [k \in 1..Len(writes) |-> writes[k].text]
                   = <<sections[i].Text, <<"\n">>>>
            ELSE Flatten([k \in 1..Len(writes) |->
                            Denoted(Argument(writes[k].text))])
                   = sections[i].Text

(* The same for texts without percent sign.                                *)
RewriteExactWithoutPercent ==
  (\A i \in 1..Len(sections) : ~Contains(sections[i].Text, <<"%">>))
    => C6_RewriteExact

(* C7: makeRawStrings is a lossless split: the pieces made for a static    *)
(* section denote, concatenated in order, the text of the section; every   *)
(* piece is a well-formed literal, none is the empty raw string and no raw *)
(* string holds a back quote.                                              *)
C7_RawStringsLossless ==
  pc = "final" =>
    \A i \in 1..Len(sections) :
      sections[i].Kind = Static =>
        LET writes == WritesOf(i)
        IN  /\ \A k \in 1..Len(writes) :
                 /\ Denoted(writes[k].piece) # Invalid
                 /\ Denoted(writes[k].piece) # <<>>
            /\ Flatten([k \in 1..Len(writes) |-> Denoted(writes[k].piece)])
                 = sections[i].Text

(* A text with two adjacent back quotes between other characters.          *)
C7_Witness ==
  /\ pc = "final"
  /\ \E i \in 1..Len(sections) :
       /\ sections[i].Kind = Static
       /\ Len(WritesOf(i)) = 4
       /\ Contains(sections[i].Text, <<BackQuote, BackQuote>>)
       /\ sections[i].Text[1] # BackQuote


----------------------------------------------------------------------------
(* Properties of the emission namespace.                                   *)

RuntimeText == <<"r", "u", "n", "t", "i", "m", "e">>

(* The identifier that import k binds: its name, or else the last element  *)
(* of its path.                                                            *)
LocalName(k) ==
  LET spec == goParser.Imports[k]
      quoted == spec.Path
      path == SubSeq(quoted, 2, Len(quoted) - 1)
  IN  IF spec.Name # <<>> THEN spec.Name
      ELSE SubSeq(path, Len(path) - 6, Len(path))

(* Import k imports the emission namespace for calls.                      *)
ImportsRuntime(k) ==
  /\ goParser.Imports[k].Path = <<"\"">> \o seekPath \o <<"\"">>
  /\ goParser.Imports[k].Name # <<"_">>

RuntimeImported == \E k \in 1..Len(goParser.Imports) : ImportsRuntime(k)

FirstRuntimeImport ==
  CHOOSE k \in 1..Len(goParser.Imports) :
    ImportsRuntime(k) /\ \A j \in 1..(k - 1) : ~ImportsRuntime(j)

StaticWrites == SelectSeq(output, LAMBDA w : sections[w.sec].Kind = Static)

(* C8: when the user's code imports the emission namespace, every emission *)
(* call is prefixed with the local name of the first such import that is   *)
(* not bound to the underscore, and a dot; a dot import gives no prefix.    *)
C8_PrefixOfFirstImport ==
  (pc = "final" /\ RuntimeImported) =>
    LET name == LocalName(FirstRuntimeImport)
        prefix == IF name = <<".">> THEN <<>> ELSE name \o <<".">>
    IN  /\ printPrefix = prefix
        /\ \A k \in 1..Len(StaticWrites) :
             StartsWith(StaticWrites[k].text,
                        <<";">> \o prefix \o printCall \o <<"(">>)

(* An underscore import, then two imports under different names.           *)
C8_Witness ==
  /\ pc = "final"
  /\ Len(goParser.Imports) = 3
  /\ goParser.Imports[1] = ImportSpec(<<"_">>, seekPath)
  /\ ImportsRuntime(2)
  /\ ImportsRuntime(3)
  /\ LocalName(2) # LocalName(3)
  /\ LocalName(2) # <<".">>
  /\ Len(StaticWrites) > 0

BoundNames == {LocalName(k) : k \in 1..Len(goParser.Imports)}

Suffixed(i) == RuntimeText \o <<"_">> \o Itoa(i)

(* C9: when the emission namespace is not imported, an import is injected  *)
(* under the canonical name if no import binds it, else under the first of *)
(* runtime_0, runtime_1, ... that no import binds; the name is bound by no *)
(* existing import and is the prefix of the calls; nothing is injected     *)
(* when the namespace is imported.                                         *)
C9_InjectedImport ==
  (pc = "done" /\ ret.kind = "nil") =>
    LET added == sink[Len(sink)].added
    IN  IF RuntimeImported THEN added = <<>>
        ELSE /\ importAs \notin BoundNames
             /\ IF RuntimeText \notin BoundNames
                  THEN /\ importAs = RuntimeText
                       /\ added = <<[Name |-> <<>>,
                                     Path |-> <<"\"">> \o seekPath \o <<"\"">>]>>
                  ELSE /\ \E i \in 0..Len(goParser.Imports) :
                            /\ importAs = Suffixed(i)
                            /\ \A j \in 0..(i - 1) : Suffixed(j) \in BoundNames
                       /\ added = <<[Name |-> importAs,
                                     Path |-> <<"\"">> \o seekPath \o <<"\"">>]>>
             /\ printPrefix = importAs \o <<".">>

(* The canonical name and the first two suffixed names are taken.          *)
C9_Witness ==
  /\ pc = "done"
  /\ ret.kind = "nil"
  /\ ~RuntimeImported
  /\ importAs = Suffixed(2)

----------------------------------------------------------------------------
(* Properties of the normalization.                                        *)

Blank(section) ==
  /\ section.Kind = Static
  /\ \A k \in 1..Len(section.Text) : section.Text[k] \in {" ", "\n", "\t"}

EndsNotBlank ==
  sections # <<>> => ~Blank(sections[1]) /\ ~Blank(sections[Len(sections)])

(* C10: steps 1 and 2 remove exactly the blank static sections before the  *)
(* first and after the last section that is code or holds other text, and  *)
(* the normalized list neither starts nor ends with a blank static         *)
(* section.                                                                *)
C10_BlankEndsDiscarded ==
  /\ pc = "trim" =>
       /\ \E a \in 0..Len(raw) : \E b \in 0..(Len(raw) - a) :
            /\ sections = SubSeq(raw, a + 1, Len(raw) - b)
            /\ \A k \in 1..a : Blank(raw[k])
            /\ \A k \in (Len(raw) - b + 1)..Len(raw) : Blank(raw[k])
       /\ EndsNotBlank
  /\ pc \in {"probe", "rewrite", "final"} => EndsNotBlank

(* Several blank sections were dropped at both ends and a code section of  *)
(* white space was kept.                                                   *)
C10_Witness ==
  /\ pc = "trim"
  /\ Len(raw) >= Len(sections) + 3
  /\ Blank(raw[1]) /\ Blank(raw[2]) /\ Blank(raw[Len(raw)])
  /\ sections # <<>>
  /\ sections[1].Kind = Code
  /\ sections[1].Text # <<>>
  /\ \A k \in 1..Len(sections[1].Text) : sections[1].Text[k] = " "

----------------------------------------------------------------------------
(* Properties of the trimming steps.                                       *)

(* C11: after normalization a Literal section next to a Code section has   *)
(* no white space on the side that faces the Code section, wherever the    *)
(* section lies relative to the first and the last Code section.           *)
C11_TrimmedTowardsCode ==
  pc = "probe" =>
    \A i \in 1..Len(sections) :
      sections[i].Kind = Static =>
        /\ (i > 1 /\ sections[i - 1].Kind = Code)
              => ~IsSpace(sections[i].Text[1])
        /\ (i < Len(sections) /\ sections[i + 1].Kind = Code)
              => ~IsSpace(sections[i].Text[Len(sections[i].Text)])

(* Has the section text other than white space?                            *)
HasText(section) == \E k \in 1..Len(section.Text) : ~IsSpace(section.Text[k])

(* The Literal sections strictly between the first and the last Code       *)
(* section that hold other text than white space.                          *)
InnerText(secs) ==
  {i \in 1..Len(secs) :
     /\ \E j \in 1..(i - 1) : secs[j].Kind = Code
     /\ \E j \in (i + 1)..Len(secs) : secs[j].Kind = Code
     /\ secs[i].Kind = Static
     /\ HasText(secs[i])}

Min(set) == CHOOSE x \in set : \A y \in set : x <= y
Max(set) == CHOOSE x \in set : \A y \in set : x >= y

(* C11, amended: steps 3 and 4 change Literal sections between the first   *)
(* and the last Code section only.  The first of them with other text than *)
(* white space loses its leading white space and the white-space sections  *)
(* before it become empty; the last of them with other text gets its       *)
(* trailing white space replaced by one newline and the white-space        *)
(* sections after it become empty.  Every other section keeps its text,    *)
(* white space that faces a Code section included.                         *)
C11_TrimBetweenCode ==
  [][pc = "trim" =>
       LET inner == InnerText(sections)
           between(i) == /\ \E j \in 1..(i - 1) : sections[j].Kind = Code
                         /\ \E j \in (i + 1)..Len(sections) :
                              sections[j].Kind = Code
           first == IF inner = {} THEN Len(sections) + 1 ELSE Min(inner)
           last == IF inner = {} THEN 0 ELSE Max(inner)
           left(i, text) == IF i <= first THEN TrimLeft(text) ELSE text
           right(i, text) ==
             IF i = last THEN Append(TrimRight(text), "\n")
             ELSE IF i > last THEN TrimRight(text)
             ELSE text
       IN  /\ Len(sections') = Len(sections)
           /\ \A i \in 1..Len(sections) :
                /\ sections'[i].Kind = sections[i].Kind
                /\ sections'[i].Text =
                     IF sections[i].Kind = Static /\ between(i)
                       THEN right(i, left(i, sections[i].Text))
                       ELSE sections[i].Text]_vars

(* Two sections with text between the first and the last Code section, the *)
(* first trimmed on the left only and the second on the right only, after  *)
(* a Literal section that kept the white space facing the first Code        *)
(* section.                                                                *)
C11_Witness ==
  /\ pc = "merge"
  /\ Len(sections) >= 6
  /\ sections[1] = Section(Static, <<" ", "x", " ">>)
  /\ sections[2].Kind = Code
  /\ \E i, j \in 3..(Len(sections) - 1) :
       /\ i < j
       /\ sections[i] = Section(Static, <<"x", " ">>)
       /\ sections[j] = Section(Static, <<" ", "x", "\n">>)

(* Was section k of the scanned list pushed by an inserted child?          *)
FromChild(k) == Len(origin[k].label) > 1

(* Does section k of the scanned list lie between two Code sections?       *)
BetweenCode(k) ==
  /\ \E j \in 1..(k - 1) : raw[j].Kind = Code
  /\ \E j \in (k + 1)..Len(raw) : raw[j].Kind = Code

(* C12: the first Literal section of the top-level template has lost its   *)
(* leading white space and the last one its trailing white space, also     *)
(* when they hold other text, and every Literal section of an inserted     *)
(* child is in the normalized list verbatim.                               *)
C12_TopEndsStripped ==
  pc = "probe" =>
    /\ HasText(raw[1]) =>
          /\ sections # <<>>
          /\ sections[1].Kind = Static
          /\ StartsWith(sections[1].Text, TrimLeft(raw[1].Text))
    /\ HasText(raw[Len(raw)]) =>
          /\ sections # <<>>
          /\ sections[Len(sections)].Kind = Static
          /\ EndsWith(sections[Len(sections)].Text,
                      TrimRight(raw[Len(raw)].Text))
    /\ \A k \in 1..Len(raw) :
         (FromChild(k) /\ raw[k].Kind = Static) =>
           \E i \in 1..Len(sections) :
             /\ sections[i].Kind = Static
             /\ Contains(sections[i].Text, raw[k].Text)

(* C12, amended: a first Literal section of the top-level template that    *)
(* holds other text than white space keeps its leading white space, and a  *)
(* last one its trailing white space; only white-space sections are        *)
(* dropped at the ends.  A Literal section of an inserted child is         *)
(* normalized by the same rules: it is in the normalized list verbatim     *)
(* when it holds other text and does not lie between two Code sections.    *)
C12_TopEndsKept ==
  pc = "probe" =>
    /\ HasText(raw[1]) =>
          /\ sections # <<>>
          /\ sections[1].Kind = Static
          /\ StartsWith(sections[1].Text, raw[1].Text)
    /\ HasText(raw[Len(raw)]) =>
          /\ sections # <<>>
          /\ sections[Len(sections)].Kind = Static
          /\ EndsWith(sections[Len(sections)].Text, raw[Len(raw)].Text)
    /\ \A k \in 1..Len(raw) :
         (FromChild(k) /\ raw[k].Kind = Static /\ HasText(raw[k])
            /\ ~BetweenCode(k)) =>
           \E i \in 1..Len(sections) :
             /\ sections[i].Kind = Static
             /\ Contains(sections[i].Text, raw[k].Text)

(* A top-level template that starts with white space and text, inserts a   *)
(* child with white space around its text and goes on with code.           *)
C12_Witness ==
  /\ pc = "probe"
  /\ Len(raw) >= 2
  /\ raw[1] = Section(Static, <<" ", "x", " ">>)
  /\ FromChild(2)
  /\ raw[2] = Section(Static, <<" ", "y", " ">>)
  /\ Len(sections) = 2
  /\ sections[1] = Section(Static, <<" ", "x", " ", " ", "y", " ">>)
  /\ sections[2].Kind = Code

----------------------------------------------------------------------------
(* Properties of a batch of compilations.                                  *)

(* The template of argument k exists and holds no insertion delimiter.     *)
InsertionFree(k) ==
  /\ Resolve(batch[k].path) \in DOMAIN fs
  /\ ~Contains(fs[Resolve(batch[k].path)].content, OpenInsertText)

(* C13: two calls of Process on the same insertion-free template, one      *)
(* right after the other in the same process, write the same output.       *)
C13_SameOutputTwice ==
  \A k \in 1..(Len(sink) - 1) :
    (batch[k] = batch[k + 1] /\ InsertionFree(k)) => sink[k + 1] = sink[k]

(* The template with code and text was compiled twice in a row.            *)
C13_Witness ==
  /\ Len(sink) >= 2
  /\ batch[1] = batch[2]
  /\ InsertionFree(1)
  /\ sink[1].kind = "Program"
  /\ sink[2].kind = "Program"
  /\ Contains(sink[2].source, <<"c">>)

(* The identities of the template files of the site.                       *)
DistinctFiles ==
  {fs[p].ino : p \in {q \in DOMAIN fs : fs[q] # Directory(fs[q].ino)}}

(* C20: parse returns, with success or with its first error, whatever the  *)
(* insertion references among the files are, and while it runs the         *)
(* inclusion stack is never deeper than the number of distinct files plus  *)
(* one.                                                                    *)
C20_ParseReturns ==
  /\ [](Len(stack) <= Cardinality(DistinctFiles) + 1)
  /\ <>(pc \notin {"start", "parse", "panic"})

(* A cycle through all three files of the site is found: the stack holds   *)
(* each file once and the top-level template a second time.                *)
C20_Witness ==
  /\ Cardinality(DistinctFiles) = 3
  /\ Len(stack) = Cardinality(DistinctFiles) + 1
  /\ pc = "done"
  /\ ret.kind = "cycle"

(* The call of Process for argument k failed.                              *)
Failed(k) == sink[k].kind \in {"ParsingError", "CodeError", "OutputError"}

(* C19: a call of Process that fails does not change what later calls      *)
(* write: the driver goes on with its next argument, and a template that   *)
(* is compiled after the failed call gets the output that it got before    *)
(* the failed call, whatever the failed call left in sections and stack.   *)
C19_FailureDoesNotSpread ==
  /\ \A i, k, j \in 1..Len(sink) :
       (i < k /\ k < j /\ Failed(k) /\ batch[i] = batch[j])
         => sink[j] = sink[i]
  /\ (pc = "done" /\ Len(sink) < Len(batch))
       => ENABLED (processTemplate \/ processTemplateCreateFails)

(* The template with code and text was compiled before and after a        *)
(* template that failed with an insertion cycle.                           *)
C19_Witness ==
  /\ Len(sink) = 3
  /\ batch[1] = batch[3]
  /\ sink[1].kind = "Program"
  /\ sink[2].kind = "ParsingError"
  /\ sink[2].err.kind = "cycle"
  /\ sink[3].kind = "Program"

----------------------------------------------------------------------------
(* Properties of the error reports.                                        *)

(* The compilation failed on an inserted file: the file was missing, or it *)
(* could not be opened or read.                                            *)
InsertFailed ==
  /\ pc = "done"
  /\ \/ ret.kind = "stat" /\ stack # <<>>
     \/ ret.kind \in {"open", "read"} /\ Len(stack) >= 2

(* C14: a missing or unreadable inserted file aborts the compilation at    *)
(* the insertion: nothing more is scanned, the sink holds the error report *)
(* and no generated source, and the error identifies the reference as      *)
(* written and the line of the insertion in the parent.                    *)
C14_InsertFailureReported ==
  InsertFailed =>
    /\ frames = <<>>
    /\ sink = <<[kind |-> "ParsingError", templatePath |-> templatePath,
                 err |-> ret]>>
    /\ "reference" \in DOMAIN ret
    /\ "line" \in DOMAIN ret
    /\ ret.kind \in {"open", "read"} =>
         /\ ret.reference = stack[Len(stack)].GivenPath
         /\ ret.line = stack[Len(stack)].InsertionLine

(* The text of the Code sections, each followed by a newline.              *)
CodeText ==
  LET code == SelectSeq(sections, LAMBDA section : section.Kind = Code)
  IN  Flatten([k \in 1..Len(code) |-> code[k].Text \o <<"\n">>])

(* C15: when the probe parse or the final parse fails, Process writes to   *)
(* the sink the buffer that failed to parse with the diagnostic and        *)
(* nothing else, returns an error, and neither injects an import nor       *)
(* writes a formatted program.  The buffer of the probe parse is the text  *)
(* of the Code sections; the buffer of the final parse is the rewritten    *)
(* source of all sections.                                                 *)
C15_SyntaxErrorReported ==
  (pc = "done" /\ ret.kind = "syntax") =>
    /\ Len(sink) = 1
    /\ DOMAIN sink[1] = {"kind", "source"}
    /\ ret.stage = "probe" =>
         /\ sink[1].kind = "CodeError"
         /\ sink[1].source = CodeText
    /\ ret.stage = "final" =>
         /\ sink[1].kind = "OutputError"
         /\ sink[1].source = Bytes(output)
         /\ {output[k].sec : k \in 1..Len(output)} = 1..Len(sections)
         /\ \A k \in 1..Len(output) :
              sections[output[k].sec].Kind = Static =>
                StartsWith(output[k].text,
                           <<";">> \o printPrefix \o printCall \o <<"(">>)

(* The probe parse failed for a template that has Literal text before and  *)
(* after its code.                                                         *)
C15_Witness ==
  /\ pc = "done"
  /\ ret.kind = "syntax"
  /\ ret.stage = "probe"
  /\ Len(sections) = 3
  /\ sections[1].Kind = Static
  /\ sections[3].Kind = Static
  /\ sink[1].source = <<"c", "\n">>

----------------------------------------------------------------------------
(* Properties of the resources.                                            *)

(* The calls of doParse in progress that have opened their file.           *)
Scanning == {k \in 1..Len(frames) : frames[k].at # "entry"}

(* C17: a file opened by a call of doParse is released when the call       *)
(* returns, so the open files are those of the calls in progress, and none *)
(* is open after Process has returned.                                     *)
C17_HandlesReleased ==
  /\ pc = "parse" => Len(OpenHandles) <= Cardinality(Scanning)
  /\ pc = "done" => Len(OpenHandles) = 0

----------------------------------------------------------------------------
(* Properties of compilations that run in parallel.                        *)

(* A template of plain text: no delimiter character, no white space, no    *)
(* back quote and no percent sign, compiled with code that has no imports. *)
PlainText(path, parser) ==
  /\ parser = NoImports
  /\ Resolve(path) \in DOMAIN fs
  /\ fs[Resolve(path)].content # <<>>
  /\ \A k \in 1..Len(fs[Resolve(path)].content) :
       fs[Resolve(path)].content[k] \in {"x", "y", "z"}

(* What Process writes for a template of plain text when it runs alone.    *)
AloneOutput(path) ==
  <<[kind |-> "Program",
     source |-> <<";">> \o seekName \o <<".">> \o printCall
                  \o <<"(", BackQuote>> \o fs[Resolve(path)].content
                  \o <<BackQuote, ")", ";">>,
     added |-> <<ImportSpec(<<>>, seekPath)>>]>>

(* C18: a call of Process that runs in parallel with a call for another    *)
(* template writes what it writes when it runs alone; stated for the       *)
(* templates of plain text, whose output is one emission call.             *)
C18_ParallelAsAlone ==
  /\ (pc = "done" /\ PlainText(templatePath, goParser)) =>
       ret = NoError /\ sink = AloneOutput(templatePath)
  /\ (parked.pc = "done" /\ PlainText(parked.templatePath, parked.goParser))
       => parked.ret = NoError /\ parked.sink = AloneOutput(parked.templatePath)

----------------------------------------------------------------------------
(* Properties of the end of a stream.                                      *)

(* What the frame has read since its buffer was last emptied.              *)
ReadSinceReset(f) ==
  SubSeq(Content(f), f.pos - Len(f.buffer) + 1, f.pos)

(* The text in front of the buffer ends with the delimiter of the tag that *)
(* the frame holds open.                                                   *)
AfterOpeningTag(f) ==
  LET d == IF f.open = "code" THEN OpenCodeText ELSE OpenInsertText
      start == f.pos - Len(f.buffer)
  IN  /\ start >= Len(d)
      /\ SubSeq(Content(f), start - Len(d) + 1, start) = d

(* C21: at the end of the stream doParse appends the rest of the buffer as *)
(* one Literal section and returns no error, with a tag open (the buffer   *)
(* is then what follows the opening delimiter) or without; a read failure  *)
(* is returned as the error of the compilation and appends nothing.        *)
C21_EndOfStream ==
  [][(pc = "parse" /\ frames # <<>> /\ Top.at = "loop") =>
       /\ AtEOF(Top) =>
            /\ sections' = Append(sections, Section(Static, Top.buffer))
            /\ Top.buffer = ReadSinceReset(Top)
            /\ TagIsOpen(Top) => AfterOpeningTag(Top)
            /\ ret' = NoError
            /\ sink' = sink
            /\ pc' \in {"parse", "normalize"}
       /\ ReadFails(Top) =>
            /\ sections' = sections
            /\ ret'.kind = "read"
            /\ pc' = "done"
            /\ sink'[Len(sink')].kind = "ParsingError"]_vars

(* The top-level template ended inside a code tag and the text after the   *)
(* opening delimiter became the last Literal section.                      *)
C21_Witness ==
  /\ pc = "normalize"
  /\ ret = NoError
  /\ raw # <<>>
  /\ Len(origin) = Len(raw)
  /\ LET o == origin[Len(origin)]
         c == fs[o.file].content
     IN  /\ o.to = Len(c)
         /\ o.to > o.from
         /\ o.from >= Len(OpenCodeText)
         /\ SubSeq(c, o.from - Len(OpenCodeText) + 1, o.from) = OpenCodeText
         /\ raw[Len(raw)] = Section(Static, SubSeq(c, o.from + 1, o.to))

----------------------------------------------------------------------------
(* Properties of the package runtime.                                      *)

(* The lines of a text, without their line ends.                           *)
RECURSIVE SplitLines(_)
SplitLines(text) ==
  IF \A i \in 1..Len(text) : text[i] # "\n" THEN <<text>>
  ELSE LET k == CHOOSE i \in 1..Len(text) :
                  text[i] = "\n" /\ \A j \in 1..(i - 1) : text[j] # "\n"
       IN  <<SubSeq(text, 1, k - 1)>>
             \o SplitLines(SubSeq(text, k + 1, Len(text)))

(* The header lines of a response: the lines in front of the first empty   *)
(* line.                                                                   *)
HeaderLines(response) ==
  LET lines == SplitLines(response)
      blank == CHOOSE i \in 1..(Len(lines) + 1) :
                 /\ i = Len(lines) + 1 \/ lines[i] = <<>>
                 /\ \A j \in 1..(i - 1) : lines[j] # <<>>
  IN  {lines[i] : i \in 1..(blank - 1)}

StatusAndLocation(response) ==
  {l \in HeaderLines(response) :
     StartsWith(l, StatusPrefix) \/ StartsWith(l, LocationPrefix)}

Setters == {"SetHTTPStatus", "Redirect", "RedirectWithStatus"}

(* What the last call of SetHTTPStatus, Redirect or RedirectWithStatus     *)
(* asked for.                                                              *)
LastSet ==
  LET setting == {i \in 1..Len(calls) : calls[i].op \in Setters}
  IN  IF setting = {} THEN {}
      ELSE LET c == calls[CHOOSE i \in setting : \A j \in setting : j <= i]
           IN  IF c.op = "SetHTTPStatus"
                 THEN {StatusText(c.code, c.phrase)}
                 ELSE {StatusText(c.code, c.phrase), LocationText(c.url)}

(* C22: the response that PrintCGI writes has the Status and Location      *)
(* headers of the last call of SetHTTPStatus, Redirect or                  *)
(* RedirectWithStatus and no other Status or Location header.              *)
C22_LastCallWins ==
  (calls # <<>> /\ calls[Len(calls)].op = "PrintCGI")
    => StatusAndLocation(stdout[Len(stdout)].text) = LastSet

(* The text of a response after its first empty line.                      *)
BodyOf(response) ==
  LET k == CHOOSE i \in 1..(Len(response) - 1) :
             /\ response[i] = "\n" /\ response[i + 1] = "\n"
             /\ \A j \in 1..(i - 1) :
                  ~(response[j] = "\n" /\ response[j + 1] = "\n")
  IN  SubSeq(response, k + 2, Len(response))

(* C23: the number in the Content-Length header of a response is the       *)
(* number of bytes that PrintCGI writes after the empty line.              *)
C23_ContentLengthIsBodyLength ==
  (calls # <<>> /\ calls[Len(calls)].op = "PrintCGI")
    => ContentLengthBare(Len(BodyOf(stdout[Len(stdout)].text)))
         \in HeaderLines(stdout[Len(stdout)].text)

----------------------------------------------------------------------------
(* Properties of the two walks between the Code sections.                  *)

(* The Literal sections strictly between the first and the last Code       *)
(* section.                                                                *)
InnerLiterals(secs) ==
  {i \in (CodeLeft(secs) + 1)..(CodeRight(secs) - 1) : secs[i].Kind = Static}

(* C24: the forward walk of step 3 left-trims the Literal sections between *)
(* the first and the last Code section up to and including the first one   *)
(* that has other text than white space, and changes nothing else: the     *)
(* Literal sections after that one keep their leading white space.         *)
C24_ForwardWalk ==
  pc = "trim" =>
    LET lits == InnerLiterals(sections)
        texts == {i \in lits : TrimLeft(sections[i].Text) # <<>>}
        stop == IF texts = {} THEN Len(sections) ELSE Min(texts)
        out == TrimForward(sections, CodeLeft(sections) + 1,
                           CodeRight(sections))
    IN  /\ Len(out) = Len(sections)
        /\ \A i \in 1..Len(sections) :
             /\ out[i].Kind = sections[i].Kind
             /\ out[i].Text = IF i \in lits /\ i <= stop
                                THEN TrimLeft(sections[i].Text)
                                ELSE sections[i].Text
        /\ \A i \in lits : i < stop => out[i].Text = <<>>

(* Between the Code sections: a Literal section of white space that the    *)
(* walk emptied, the Literal section with text where it stopped and a      *)
(* later Literal section that still starts with white space.               *)
C24_Witness ==
  /\ pc = "trim"
  /\ LET out == TrimForward(sections, CodeLeft(sections) + 1,
                            CodeRight(sections))
     IN  \E i, j, k \in InnerLiterals(sections) :
           /\ i < j /\ j < k
           /\ sections[i].Text # <<>> /\ out[i].Text = <<>>
           /\ sections[j].Text # <<>> /\ IsSpace(sections[j].Text[1])
           /\ out[j].Text # <<>> /\ ~IsSpace(out[j].Text[1])
           /\ out[k].Text # <<>> /\ IsSpace(out[k].Text[1])

(* The section list that step 4 receives from step 3.                      *)
AfterForwardWalk ==
  TrimForward(sections, CodeLeft(sections) + 1, CodeRight(sections))

(* C25: the backward walk of step 4 right-trims the Literal sections       *)
(* between the first and the last Code section from the last one down to   *)
(* the first one that has other text than white space; that section, and   *)
(* no other, gets one newline appended, so that it ends with a character   *)
(* that is no white space and one newline; without such a section no       *)
(* newline is appended.                                                    *)
C25_BackwardWalk ==
  [][pc = "trim" =>
       LET in == AfterForwardWalk
           lits == InnerLiterals(in)
           texts == {i \in lits : TrimRight(in[i].Text) # <<>>}
           stop == IF texts = {} THEN 0 ELSE Max(texts)
       IN  /\ Len(sections') = Len(in)
           /\ \A i \in 1..Len(in) :
                /\ sections'[i].Kind = in[i].Kind
                /\ sections'[i].Text =
                     IF i \in lits /\ i = stop
                       THEN Append(TrimRight(in[i].Text), "\n")
                     ELSE IF i \in lits /\ i > stop THEN <<>>
                     ELSE in[i].Text
           /\ stop # 0 =>
                LET t == sections'[stop].Text
                IN  /\ Len(t) >= 2
                    /\ t[Len(t)] = "\n"
                    /\ ~IsSpace(t[Len(t) - 1])
           /\ stop = 0 => \A i \in lits : sections'[i].Text = <<>>]_vars

(* Between the Code sections: a Literal section that kept its trailing     *)
(* white space, the Literal section that got the newline and a Literal     *)
(* section of white space that was emptied.  The template starts and ends  *)
(* with a code tag, so that section k is section k + 1 of the scan.        *)
C25_Witness ==
  /\ pc = "merge"
  /\ \E i, j, k \in InnerLiterals(sections) :
       /\ i < j /\ j < k
       /\ sections[i].Text # <<>>
       /\ sections[i].Text[Len(sections[i].Text)] = " "
       /\ Len(sections[j].Text) >= 2
       /\ sections[j].Text[Len(sections[j].Text)] = "\n"
       /\ ~IsSpace(sections[j].Text[Len(sections[j].Text) - 1])
       /\ Len(raw) = Len(sections) + 2
       /\ raw[2].Kind = Code
       /\ raw[Len(raw) - 1].Kind = Code
       /\ raw[k + 1].Text # <<>>
       /\ sections[k].Text = <<>>

----------------------------------------------------------------------------
(* Properties of the pattern cursors.                                      *)

(* The patterns that the read loop hands the next rune to, by the name of  *)
(* their field in the frame.                                               *)
Stepped(f) ==
  IF TagIsOpen(f) THEN {"close"} ELSE {"codePattern", "insertPattern"}

(* The frame that read the rune, after the step.                           *)
Reader == frames'[Len(frames)]

(* C26: the cursor of a pattern goes back to 0 only after a complete       *)
(* match: a rune that does not continue a partial match leaves Pos as it   *)
(* is.                                                                     *)
C26_ResetOnlyAfterMatch ==
  [][(InLoop /\ CanRead(Top) /\ Len(frames') >= Len(frames)) =>
       \A name \in Stepped(Top) :
         LET before == Top[name]
             after == Reader[name]
         IN  after.Pos < before.Pos => before.Pos = before.Length]_vars

(* C26, amended: Pattern.Next puts the cursor back to 0 when it is called  *)
(* after a complete match and also when the rune is not the one the        *)
(* pattern expects at the cursor, after a partial match or not; the rune   *)
(* that failed is not compared with the first rune of the pattern.  A rune *)
(* that is the expected one advances the cursor by one.                    *)
C26_ResetOnMismatch ==
  [][(InLoop /\ CanRead(Top) /\ Len(frames') >= Len(frames)) =>
       \A name \in Stepped(Top) :
         LET before == Top[name]
             after == Reader[name]
             ch == Content(Top)[Top.pos + 1]
             pos0 == IF before.Pos = before.Length THEN 0 ELSE before.Pos
         IN  /\ after.Text = before.Text
             /\ after.Length = before.Length
             /\ after.Pos = IF ch = before.Text[pos0 + 1] THEN pos0 + 1
                            ELSE 0]_vars

(* The scanner read "<" and then a rune that does not continue an opening  *)
(* delimiter: both cursors are back at 0.                                  *)
C26_Witness ==
  /\ InLoop
  /\ ~TagIsOpen(Top)
  /\ Len(Top.buffer) >= 2
  /\ Top.buffer[Len(Top.buffer) - 1] = "<"
  /\ Top.buffer[Len(Top.buffer)] = "x"
  /\ Top.codePattern.Pos = 0
  /\ Top.insertPattern.Pos = 0

----------------------------------------------------------------------------
(* Properties of the depth of the inclusion stack.                         *)

(* parse has called doParse for the top-level template and that call has   *)
(* returned.                                                               *)
OutermostReturned == pc \notin {"start", "parse", "panic"} /\ stack # <<>>

(* C27: an entry is pushed before doParse is called for a child and popped *)
(* when that call returns, with an error or without: during a compilation  *)
(* the stack is as deep as the calls of doParse are nested, and when the   *)
(* outermost call has returned the stack holds the top-level entry only.   *)
C27_DepthIsNesting ==
  /\ (pc = "parse" /\ frames # <<>>) => Len(stack) = Len(frames)
  /\ OutermostReturned => Len(stack) = 1

----------------------------------------------------------------------------
(* Properties of the section list after merging and discarding.            *)

(* Process has merged static text and discarded the blank sections: the    *)
(* section list is the one synthesis reads.                                *)
Normalized == pc \in {"probe", "rewrite", "final"}

AdjacentLiterals(secs) ==
  \E i \in 1..(Len(secs) - 1) : ~IsCode(secs[i]) /\ ~IsCode(secs[i + 1])

(* C28: with MergeStaticText set, the section list that synthesis reads    *)
(* never has two Literal sections next to each other, whatever the raw     *)
(* list was, a blank Code section between two Literal sections included.   *)
C28_NoAdjacentLiterals ==
  (MergeStaticText /\ Normalized) => ~AdjacentLiterals(sections)

----------------------------------------------------------------------------
(* Properties of the removal of a delimiter from the buffer.               *)

Suffix(s, n) == SubSeq(s, Len(s) - n + 1, Len(s))

(* The top activation of doParse is about to read a rune.                  *)
Reading == pc = "parse" /\ frames # <<>> /\ Top.at = "loop" /\ CanRead(Top)

(* The patterns that the read loop gives the next rune of f to.            *)
PatternsFed(f) ==
  IF TagIsOpen(f) THEN {f.close} ELSE {f.codePattern, f.insertPattern}

(* The patterns that the read loop does not call while f is as it is.      *)
PatternsAtRest(f) ==
  IF TagIsOpen(f) THEN {f.codePattern, f.insertPattern} ELSE {f.close}

(* If the next rune of f completes a pattern, the buffer with that rune    *)
(* appended ends with the text of the pattern.                             *)
MatchIsDelimiter(f) ==
  LET ch == Content(f)[f.pos + 1]
      buffer == Append(f.buffer, ch)
  IN  \A p \in PatternsFed(f) :
        PatternNext(p, ch).hit =>
          /\ Len(buffer) - p.Length >= 0
          /\ Suffix(buffer, p.Length) = p.Text

(* C29: when Pattern.Next reports a match in doParse, the last Length      *)
(* runes of the buffer are the delimiter, so that the slice bound is not   *)
(* negative, doParse does not panic and the slice removes the delimiter    *)
(* and nothing else; and a pattern that the loop is not calling, an        *)
(* opening pattern inside a tag or the closing pattern outside one, holds  *)
(* no partial match.                                                       *)
C29_MatchEndsBuffer ==
  /\ pc # "panic"
  /\ Reading => (MatchIsDelimiter(Top) /\ ReadRune(Top).event # "panic")
  /\ \A k \in 1..Len(frames) : \A p \in PatternsAtRest(frames[k]) :
        p.Pos \in {0, p.Length}

(* A code tag with text in it is about to be closed, in a template that    *)
(* has text before the tag, and the closing pattern holds a partial match. *)
C29_Witness ==
  /\ Reading /\ ReadRune(Top).event = "code"
  /\ ReadRune(Top).content # <<>>
  /\ Top.close.Pos = 1
  /\ \E i \in 1..Len(sections) : sections[i].Text # <<>>

----------------------------------------------------------------------------
(* Properties of a template inserted more than once.                       *)

(* The number of times doParse has opened the file f.                      *)
Times(f) == Cardinality({k \in 1..Len(opened) : opened[k] = f})

(* The raw sections that were copied from the file f, in their order, each *)
(* with the range of f it was copied from.                                 *)
PiecesOf(f) ==
  LET all == [k \in 1..Len(raw) |->
                 [file |-> origin[k].file, from |-> origin[k].from,
                  to |-> origin[k].to, section |-> raw[k]]]
      IsOfFile(p) == p.file = f
  IN  SelectSeq(all, IsOfFile)

(* The sections of f are as many copies of one run of sections as f was    *)
(* opened, each run ending with the text before the end of f.              *)
SplicedOncePerInsertion(f) ==
  LET ps == PiecesOf(f)
      n == Len(ps)
      k == Times(f)
  IN  IF k = 0 THEN n = 0
      ELSE /\ n % k = 0
           /\ \A j \in 1..(n - n \div k) : ps[j] = ps[j + n \div k]
           /\ \A j \in 1..n :
                 (ps[j].to = Len(fs[f].content)) <=> (j % (n \div k) = 0)

(* C30: a cycle is reported only when the template being entered is the    *)
(* same file as one of its ancestors on the inclusion path; a file that is *)
(* inserted several times at positions not nested in one another is read   *)
(* each time, and its sections are in the list once per insertion.         *)
C30_RepeatedInsertion ==
  /\ ret.kind = "cycle" =>
        \E i \in 1..(Len(stack) - 1) :
          stack[i].FileInfo = stack[Len(stack)].FileInfo
  /\ pc = "normalize" =>
        /\ Len(origin) = Len(raw)
        /\ \A f \in DOMAIN fs : SplicedOncePerInsertion(f)

(* A compilation that has inserted one template twice in the same parent   *)
(* and, from each of these, another template.                              *)
C30_Witness ==
  /\ pc = "normalize"
  /\ Times(PathA) = 2
  /\ Times(PathB) = 2
  /\ Len(PiecesOf(PathB)) = 2

====
